---- MODULE Spec2Model ----
(***************************************************************************)
(* Verification model of the trading bot's orchestration engines.         *)
(*                                                                         *)
(*   MultiSymbolEngine  src/apps/executor/multi_symbol_engine.py   (Spec)  *)
(*   TradingEngine      src/apps/executor/trading_engine.py      (SpecTE)  *)
(*   AccountManager     src/apps/executor/account_manager.py     (SpecAM)  *)
(*   risk managers      src/apps/executor/risk_manager.py                  *)
(*                      on their own         (SpecRisk, SpecPortfolio)     *)
(*   FeedHandler        src/apps/ingestion/feed_handler_daemon.py          *)
(*                      with the engine that consumes it       (SpecFeed)  *)
(*   safe list          src/config/safe_list.py                 (SpecCfg)  *)
(*   StrategyManager    src/apps/executor/strategies/            (SpecSM)  *)
(*   strategies         src/apps/executor/strategies/         (SpecStrat)  *)
(*   both engines in dry-run mode                           (SpecEngines)  *)
(*   a manager with the engines' two strategies             (SpecSignals)  *)
(*   MomentumStrategy frame after frame                    (SpecMomentum)  *)
(*   BinanceWebSocket   src/core/binance_websocket.py            (SpecWS)  *)
(*   PortfolioRiskManager registering what it approved     (SpecExposure)  *)
(*   AccountManager opened and closed on one day             (SpecLedger)  *)
(*                                                                         *)
(* Representation.  Python floats are modelled by scaled integers:         *)
(*   - fractions (risk %, drawdown %, win rate) are parts per PctScale;    *)
(*   - quantities of the base asset are in 1/QtyScale units;               *)
(*   - prices, balances and P&L are whole USDT.                            *)
(* The input sets (Prices, Balances, CandleFrames) are chosen so that      *)
(* every division the code performs on them is exact (ExactArithmetic).    *)
(*                                                                         *)
(* Scheduling.  Both engines are asyncio programs.  TestnetConnector's     *)
(* coroutines wrap the synchronous BinanceClient (requests), so an         *)
(* `await self.connector.x()` never suspends; a task is only descheduled   *)
(* at asyncio.wait_for(recv_multipart), asyncio.sleep and                  *)
(* `await monitor_task`.  One action below is therefore one run of a task  *)
(* between two such suspension points.                                     *)
(***************************************************************************)
EXTENDS Integers, Sequences, FiniteSets, TLC

\* ------------------------------------------------------------- bounds
\* Entry orders the environment lets the engine place in one behaviour.
MaxEntries == 2
\* Positions an AccountManager is asked to track in one behaviour.
MaxTrades == 2
\* Midnights that pass in one behaviour.
MaxDays == 1
\* Heartbeat timeouts in a row that are counted.
MaxTimeouts == 2
\* Ticker messages the feed handler publishes in one behaviour.
MaxMessages == 3
\* Strategies registered with one StrategyManager.
MaxStrategies == 3

\* ---------------------------------------------------- representation
PctScale == 1000 * 100
QtyScale == 2 * 5

\* Tracked symbols (two entries of SAFE_LIST) and one the engine does not track.
Symbols == {"BTC/USDT", "ETH/USDT"}
UntrackedSymbol == "XRP/USDT"

\* safe_list.py: max_position_size_usd per symbol
max_position_size_usd(symbol) == IF symbol = "BTC/USDT" THEN 1000 ELSE 800

\* Ticker prices and free USDT balances the exchange may report.
Prices == {100, 200}
Balances == {0, 7000}
\* The balance of a funded account
FundedBalance == CHOOSE b \in Balances : b > 0

\* A fetched OHLCV frame, summarised by what the engine reads from it: its
\* length and the value pandas returns for the rolling-mean ATR of its last
\* row (NaN is written 0 - 1), and the last bar.
NaN == 0 - 1
ShortFrame == [len |-> 10, atr |-> NaN, high |-> 100, low |-> 100, close |-> 100]
FullFrame == [len |-> 110, atr |-> 2, high |-> 101, low |-> 99, close |-> 100]
NoFrame == [len |-> 0, atr |-> NaN, high |-> 0, low |-> 0, close |-> 0]
\* A frame whose last bar spans 10 % of its close
VolatileFrame == [len |-> 110, atr |-> 2, high |-> 110, low |-> 100, close |-> 100]
\* Frames fetch_ohlcv returns to MultiSymbolEngine (limit = 110 candles) and
\* to TradingEngine
CandleFrames == {FullFrame}
EngineFrames == {ShortFrame, FullFrame, VolatileFrame}

\* ------------------------------------------------------- RiskConfig
max_daily_drawdown == 5000
kelly_fraction == 25000
min_notional_usdt == 6
default_atr_period == 14
\* default_atr_multiplier = 3.5, in tenths
default_atr_multiplier == 35
\* profiles.py "conservative": max_risk_per_trade = 0.01
profile_max_risk_per_trade == 1000
\* PortfolioRiskConfig.max_total_exposure = 0.10
max_total_exposure == 10000
\* RiskConfig.max_account_risk_per_trade = 0.02
max_account_risk_per_trade == 2000
\* PortfolioRiskConfig.max_correlated_positions
max_correlated_positions == 2
\* _execute_trade: win_rate = 0.55, reward_ratio = 2.0, TP_RR_RATIO default 3.0
win_rate_estimate == 55000
reward_ratio_estimate == 2
tp_rr_ratio == 3
\* RiskConfig.max_volatility_threshold = 0.05
max_volatility_threshold == 5000
\* settings.MAX_RISK_PER_TRADE = 0.02
MAX_RISK_PER_TRADE == 2000
\* settings.DEFAULT_SYMBOL
DEFAULT_SYMBOL == "BTC/USDT"

Abs(x) == IF x < 0 THEN 0 - x ELSE x
Min(a, b) == IF a < b THEN a ELSE b
Max(a, b) == IF a > b THEN a ELSE b

\* calculate_safe_size without its circuit breaker
SafeSizeWithoutBreaker(daily_loss, max_risk, balance, entry_price, stop_loss_price, win_rate, reward_ratio) ==
  LET max_daily_loss == (balance * max_daily_drawdown) \div PctScale
      kelly_raw == win_rate - ((PctScale - win_rate) \div reward_ratio)
      kelly_pct == (Max(0, kelly_raw) * kelly_fraction) \div PctScale
      position_size_equity_pct == Min(kelly_pct, max_risk)
      risk_per_share == Abs(entry_price - stop_loss_price)
      risk_amount_usdt == (balance * position_size_equity_pct) \div PctScale
      quantity_asset == (risk_amount_usdt * QtyScale) \div risk_per_share
  IN  IF reward_ratio = 0 THEN 0
      ELSE IF risk_per_share = 0 THEN 0
      ELSE IF quantity_asset * entry_price < min_notional_usdt * QtyScale THEN 0
      ELSE quantity_asset

\* calculate_safe_size risking the fractional Kelly value whatever the cap
SafeSizeUncapped(daily_loss, max_risk, balance, entry_price, stop_loss_price, win_rate, reward_ratio) ==
  LET max_daily_loss == (balance * max_daily_drawdown) \div PctScale
      kelly_raw == win_rate - ((PctScale - win_rate) \div reward_ratio)
      kelly_pct == (Max(0, kelly_raw) * kelly_fraction) \div PctScale
      position_size_equity_pct == kelly_pct
      risk_per_share == Abs(entry_price - stop_loss_price)
      risk_amount_usdt == (balance * position_size_equity_pct) \div PctScale
      quantity_asset == (risk_amount_usdt * QtyScale) \div risk_per_share
  IN  IF daily_loss <= 0 - max_daily_loss THEN 0
      ELSE IF reward_ratio = 0 THEN 0
      ELSE IF risk_per_share = 0 THEN 0
      ELSE IF quantity_asset * entry_price < min_notional_usdt * QtyScale THEN 0
      ELSE quantity_asset

\* calculate_safe_size without its notional check
SafeSizeAnyNotional(daily_loss, max_risk, balance, entry_price, stop_loss_price, win_rate, reward_ratio) ==
  LET max_daily_loss == (balance * max_daily_drawdown) \div PctScale
      kelly_raw == win_rate - ((PctScale - win_rate) \div reward_ratio)
      kelly_pct == (Max(0, kelly_raw) * kelly_fraction) \div PctScale
      position_size_equity_pct == Min(kelly_pct, max_risk)
      risk_per_share == Abs(entry_price - stop_loss_price)
      risk_amount_usdt == (balance * position_size_equity_pct) \div PctScale
      quantity_asset == (risk_amount_usdt * QtyScale) \div risk_per_share
  IN  IF daily_loss <= 0 - max_daily_loss THEN 0
      ELSE IF reward_ratio = 0 THEN 0
      ELSE IF risk_per_share = 0 THEN 0
      ELSE quantity_asset

\* ProfessionalRiskManager.calculate_safe_size; the result is in 1/QtyScale units.
calculate_safe_size(daily_loss, max_risk, balance, entry_price, stop_loss_price, win_rate, reward_ratio) ==
  LET max_daily_loss == (balance * max_daily_drawdown) \div PctScale
      kelly_raw == win_rate - ((PctScale - win_rate) \div reward_ratio)
      kelly_pct == (Max(0, kelly_raw) * kelly_fraction) \div PctScale
      position_size_equity_pct == Min(kelly_pct, max_risk)
      risk_per_share == Abs(entry_price - stop_loss_price)
      risk_amount_usdt == (balance * position_size_equity_pct) \div PctScale
      quantity_asset == (risk_amount_usdt * QtyScale) \div risk_per_share
  IN  IF daily_loss <= 0 - max_daily_loss THEN 0
      ELSE IF reward_ratio = 0 THEN 0
      ELSE IF risk_per_share = 0 THEN 0
      ELSE IF quantity_asset * entry_price < min_notional_usdt * QtyScale THEN 0
      ELSE quantity_asset

\* ProfessionalRiskManager.validate_volatility
validate_volatility(df) ==
  IF df.len < 1 THEN FALSE
  ELSE IF (df.high - df.low) * PctScale > max_volatility_threshold * df.close THEN FALSE
  ELSE TRUE

\* ProfessionalRiskManager.calculate_dynamic_stop_loss
calculate_dynamic_stop_loss(df, current_price, side) ==
  LET fallback == IF side = "long" THEN (current_price * 95) \div 100
                  ELSE (current_price * 105) \div 100
      offset == (df.atr * default_atr_multiplier) \div 10
  IN  IF df.len < default_atr_period THEN fallback
      ELSE IF df.atr = NaN \/ df.atr <= 0 THEN fallback
      ELSE IF side = "long" THEN current_price - offset
      ELSE current_price + offset


\* ------------------------------------------------------------ state
VARIABLES
  \* MultiSymbolEngine
  running,            \* self.running
  dry_run,            \* self.dry_run
  open_positions,     \* self.open_positions: tracked symbol -> position
  latest_candles,     \* self.latest_candles: symbol -> frame or NoFrame (None)
  current_daily_loss, \* self.risk_manager.current_daily_loss
  connector_closed,   \* self.connector.close() has run
  zmq_socket_closed,  \* self.zmq_socket.close() has run
  zmq_context_termed, \* self.zmq_context.term() has run
  main_pc,            \* where the task running start()/_main_loop() is
  monitor_pc,         \* where the monitor_open_positions() task is
  \* the exchange, as the connector sees it
  price,              \* symbol -> last ticker price
  exchange,           \* "up", "down", "order_raises" or "order_falsy"
  \* history of what the engine did
  entries_total,      \* entry orders the exchange executed, all symbols
  exchange_position,  \* symbol -> executed entry orders not yet offset by an
                      \* executed closing order
  realized_today,     \* sum of the realized P&L of the positions closed
  last_attempt,       \* the last engine step, if a tick: its symbol and what
                      \* _execute_trade did ("idle" when it was not called)
  failed_close,       \* the last engine step, if a monitor pass: the symbols
                      \* whose closing order failed
  heartbeat_warnings, \* the last engine steps, if heartbeat timeouts: how many
                      \* in a row
  close_orders,       \* the last engine step, if a monitor pass: the closing
                      \* orders it sent to place_order
  exchange_calls,     \* the last engine step: the order-sending methods of the
                      \* connector it called
  stopped_by,         \* what made _main_loop leave its loop
  order_pipeline,     \* checks run, in order, by the attempt that placed the last entry order
  \* AccountManager and the calendar
  account_manager,    \* the AccountManager object: a record of its attributes
  date_today,         \* what date.today() returns, as a day number
  daily_pnl_read,     \* the last read of the daily P&L: the value returned, the
                      \* day of the read and the trades closed before it
  \* the feed handler process, the message bus and the orchestrator
  feed_pc,            \* where MultiSymbolFeedHandler._stream_tickers is
  reconnect_count,    \* its reconnect_count
  feed_sent,          \* messages it has published
  feed_queue,         \* published messages the engine has not received yet
  in_flight,          \* messages whose on_tick has started and not finished
  handled,            \* sequence numbers of the messages handled, in order
  supervised,         \* the processes were started by orchestrator.py
  safe_list,          \* SAFE_LIST: max_position_size_usd of each symbol
  \* a StrategyManager on its own
  strategy_manager,   \* its combination_method and its registered strategies
  combined_signal,    \* what the last get_combined_signal returned
  sm_log,             \* the warning the last get_combined_signal logged
  returned_signals,   \* what each registered strategy's analyze returns on the
                      \* frame at hand, in registration order
  last_min_confidence, \* the min_confidence of the last get_combined_signal,
                      \* 0 before the first
  \* the strategies and the stop-loss calculation on their own
  momentum_prev,      \* MomentumStrategy's prev_fast_ma and prev_slow_ma
  last_signal,        \* the last signal a strategy generated, which strategy, and
                      \* the width of the Bollinger band it read (NaN: none)
  last_stop,          \* the last calculate_dynamic_stop_loss call and its result
  \* a risk manager on its own
  risk_cfg,           \* its RiskConfig: the fields a caller sets
  last_size,          \* the last calculate_safe_size call and its result
  active_positions,   \* PortfolioRiskManager.active_positions
  last_check,         \* the last can_open_position call and its result
  \* a BinanceWebSocket client and the task that called close()
  ws_pc,              \* where the task running _connect is
  is_running,         \* its is_running
  websocket,          \* its websocket: None, an open or a closed connection
  ws_reconnect_count, \* its reconnect_count
  on_close_calls,     \* how often it has awaited on_close
  close_pc,           \* where the task running close() is
  delivered,          \* messages it has given to on_message
  after_close,        \* what it has done since close() returned
  failed_attempts,    \* connection attempts that failed since the last one
                      \* that succeeded
  connected_ever      \* a connection attempt has succeeded

mse_vars == << running, dry_run, open_positions, latest_candles, current_daily_loss,
               connector_closed, zmq_socket_closed, zmq_context_termed, main_pc,
               monitor_pc, entries_total, exchange_position, realized_today,
               last_attempt, failed_close, heartbeat_warnings, close_orders,
               exchange_calls,
               stopped_by, order_pipeline >>
feed_vars == << feed_pc, reconnect_count, feed_sent, feed_queue, in_flight, handled,
                supervised >>
strat_vars == << momentum_prev, last_signal, last_stop >>
sm_vars == << strategy_manager, combined_signal, sm_log, returned_signals,
             last_min_confidence, strat_vars >>
cfg_vars == << safe_list >>
risk_vars == << risk_cfg, last_size, active_positions, last_check >>
ws_vars == << ws_pc, is_running, websocket, ws_reconnect_count, on_close_calls,
             close_pc, delivered, after_close, failed_attempts, connected_ever >>
env_vars == << price, exchange, feed_vars, cfg_vars, risk_vars, ws_vars, ws_vars, sm_vars >>
am_vars == << account_manager, date_today, daily_pnl_read >>
vars == << mse_vars, env_vars, am_vars >>

ExchangeStates == {"up", "down", "order_raises", "order_falsy", "ohlcv_raises"}
\* get_combined_signal's result as _check_signal sees it: None, an actionable
\* Buy or Sell, a signal is_actionable() rejects, or an exception.
SignalOutcomes == {"none", "buy", "sell", "filtered", "raise"}

NoPositions == [s \in {} |-> 0]
NoAttempt == [symbol |-> "", result |-> "idle"]
\* A Signal as StrategyManager reads and builds it; None is NoSignal, and a
\* stop_loss or take_profit of None is 0
Signal(signal_type, confidence, entry_price, stop_loss, take_profit) ==
  [signal_type |-> signal_type, confidence |-> confidence, entry_price |-> entry_price,
   stop_loss |-> stop_loss, take_profit |-> take_profit]
NoSignal == Signal("none", 0, 0, 0, 0)

\* The feed handler streaming, nothing published yet
FeedIdle ==
  /\ feed_pc = "streaming"
  /\ reconnect_count = 0
  /\ feed_sent = 0
  /\ feed_queue = << >>
  /\ in_flight = {}
  /\ handled = << >>

\* MomentumStrategy.__init__: prev_fast_ma and prev_slow_ma are None
NoMA == [fast_ma |-> 0, slow_ma |-> 0]
NoStop == [current_price |-> 0, side |-> "none", stop_loss |-> 0]

\* The strategies just constructed, nothing generated or calculated yet
StrategiesIdle ==
  /\ momentum_prev = NoMA
  /\ last_signal = [strategy |-> "none", signal |-> NoSignal, bb_width |-> NaN]
  /\ last_stop = NoStop

\* RiskConfig and PortfolioRiskConfig as the dataclasses default them
NewRiskConfig ==
  [max_account_risk_per_trade |-> max_account_risk_per_trade,
   max_correlated_positions |-> max_correlated_positions]
\* No calculate_safe_size call yet: a size of None is written 0 - 1
NoSize == [daily_loss |-> 0, balance |-> 0, entry_price |-> 0, stop_loss_price |-> 0,
           win_rate |-> 0, reward_ratio |-> 0, size |-> 0 - 1]
NoCheck == [symbol |-> "", position_size_usd |-> 0, account_balance |-> 0,
            approved |-> "none"]

\* A risk manager just constructed with the default configuration: nothing
\* sized, no position registered, nothing checked
RiskIdle ==
  /\ risk_cfg = NewRiskConfig
  /\ last_size = NoSize
  /\ active_positions = NoPositions
  /\ last_check = NoCheck

\* BinanceWebSocket.__init__: nothing connected, no stream requested yet
WebSocketIdle ==
  /\ ws_pc = "idle"
  /\ is_running = FALSE
  /\ websocket = "none"
  /\ ws_reconnect_count = 0
  /\ on_close_calls = 0
  /\ close_pc = "none"
  /\ delivered = 0
  /\ after_close = {}
  /\ failed_attempts = 0
  /\ connected_ever = FALSE

\* StrategyManager.__init__(combination_method): the name is stored as given
NewStrategyManager(combination_method) ==
  [combination_method |-> combination_method, strategies |-> 0]

\* A StrategyManager constructed with the default method, nothing evaluated
ManagerIdle ==
  /\ strategy_manager = NewStrategyManager("consensus")
  /\ combined_signal = NoSignal
  /\ sm_log = ""
  /\ returned_signals = << >>
  /\ last_min_confidence = 0
  /\ StrategiesIdle

RECURSIVE SumOver(_, _)
SumOver(f, S) == IF S = {} THEN 0
                 ELSE LET x == CHOOSE y \in S : TRUE
                      IN  f[x] + SumOver(f, S \ {x})

\* d with key k set to v (Python: d[k] = v)
DictSet(d, k, v) == [x \in DOMAIN d \cup {k} |-> IF x = k THEN v ELSE d[x]]
\* d without the keys in K (Python: del d[k])
DictDel(d, K) == [x \in DOMAIN d \ K |-> d[x]]

\* --------------------------------------------------- AccountManager
\* src/apps/executor/account_manager.py.  Sizes are in 1/QtyScale units, money
\* in whole USDT; a price of 0 stands for None (both are falsy in Python).
initial_balance == 10000
NoRead == [value |-> 0, day |-> 0 - 1, trades |-> 0]

\* AccountManager.__init__ on day d
NewAccountManager(balance, d) ==
  [initial_balance |-> balance, current_balance |-> balance,
   open_positions |-> NoPositions, closed_trades |-> << >>,
   today |-> d, daily_pnl |-> 0, daily_trades |-> 0,
   total_trades |-> 0, winning_trades |-> 0, losing_trades |-> 0,
   total_profit |-> 0, total_loss |-> 0]

\* AccountManager.reset_daily_metrics when date.today() is d
reset_daily_metrics(am, d) ==
  IF d # am.today
  THEN [am EXCEPT !.today = d, !.daily_pnl = 0, !.daily_trades = 0]
  ELSE am

\* close_position counting a trade of realized P&L 0 as a winner
ClosePositionZeroWins(am, symbol, exit_price, d) ==
  IF symbol \notin DOMAIN am.open_positions
  THEN [am |-> am, ended |-> "returned_none"]
  ELSE
    LET position == am.open_positions[symbol]
        realized_pnl ==
          IF position.side = "long"
          THEN ((exit_price - position.entry_price) * position.size) \div QtyScale
          ELSE ((position.entry_price - exit_price) * position.size) \div QtyScale
        closed_trade == [symbol |-> symbol, side |-> position.side,
                         entry_price |-> position.entry_price,
                         exit_price |-> exit_price, size |-> position.size,
                         realized_pnl |-> realized_pnl, exit_day |-> d]
    IN  [am |-> [am EXCEPT
                   !.closed_trades = Append(@, closed_trade),
                   !.current_balance = @ + realized_pnl,
                   !.daily_pnl = @ + realized_pnl,
                   !.daily_trades = @ + 1,
                   !.total_trades = @ + 1,
                   !.winning_trades = IF realized_pnl >= 0 THEN @ + 1 ELSE @,
                   !.total_profit = IF realized_pnl >= 0 THEN @ + realized_pnl ELSE @,
                   !.losing_trades = IF realized_pnl >= 0 THEN @ ELSE @ + 1,
                   !.total_loss = IF realized_pnl >= 0 THEN @ ELSE @ + Abs(realized_pnl),
                   !.open_positions = DictDel(@, {symbol})],
         ended |-> "raised"]

\* AccountManager.close_position when date.today() is d: the object afterwards
\* and how the call ended.  With a position to close it ends by raising
\* AttributeError from its last log line (ClosedTrade has no get_roi), after
\* all its updates.
am_close_position(am, symbol, exit_price, d) ==
  IF symbol \notin DOMAIN am.open_positions
  THEN [am |-> am, ended |-> "returned_none"]
  ELSE
    LET position == am.open_positions[symbol]
        realized_pnl ==
          IF position.side = "long"
          THEN ((exit_price - position.entry_price) * position.size) \div QtyScale
          ELSE ((position.entry_price - exit_price) * position.size) \div QtyScale
        closed_trade == [symbol |-> symbol, side |-> position.side,
                         entry_price |-> position.entry_price,
                         exit_price |-> exit_price, size |-> position.size,
                         realized_pnl |-> realized_pnl, exit_day |-> d]
    IN  [am |-> [am EXCEPT
                   !.closed_trades = Append(@, closed_trade),
                   !.current_balance = @ + realized_pnl,
                   !.daily_pnl = @ + realized_pnl,
                   !.daily_trades = @ + 1,
                   !.total_trades = @ + 1,
                   !.winning_trades = IF realized_pnl > 0 THEN @ + 1 ELSE @,
                   !.total_profit = IF realized_pnl > 0 THEN @ + realized_pnl ELSE @,
                   !.losing_trades = IF realized_pnl > 0 THEN @ ELSE @ + 1,
                   !.total_loss = IF realized_pnl > 0 THEN @ ELSE @ + Abs(realized_pnl),
                   !.open_positions = DictDel(@, {symbol})],
         ended |-> "raised"]

\* AccountManager.open_position when date.today() is d
am_open_position(am, symbol, side, entry_price, size, stop_loss, take_profit, d) ==
  LET position == [side |-> IF side = "long" THEN "long" ELSE "short",
                   entry_price |-> entry_price, size |-> size,
                   stop_loss |-> stop_loss, take_profit |-> take_profit]
      closing == am_close_position(am, symbol, entry_price, d)
  IN  IF symbol \in DOMAIN am.open_positions /\ closing.ended = "raised"
      THEN [am |-> closing.am, ended |-> "raised"]
      ELSE [am |-> [closing.am EXCEPT
                      !.open_positions = DictSet(@, symbol, position)],
            ended |-> "returned"]

\* AccountManager.get_daily_pnl when date.today() is d
get_daily_pnl(am, d) ==
  LET after == reset_daily_metrics(am, d)
  IN  [am |-> after, value |-> after.daily_pnl]

\* MultiSymbolEngine.__init__ / start() up to the first suspension of _main_loop
EngineStarted ==
  /\ running = TRUE
  /\ dry_run \in BOOLEAN
  /\ open_positions = NoPositions
  /\ latest_candles = [s \in Symbols |-> NoFrame]
  /\ current_daily_loss = 0
  /\ connector_closed = FALSE
  /\ zmq_socket_closed = FALSE
  /\ zmq_context_termed = FALSE
  /\ main_pc = "recv"
  /\ monitor_pc = "created"
  /\ price \in [Symbols -> Prices]
  /\ exchange = "up"
  /\ entries_total = 0
  /\ exchange_position = [s \in Symbols |-> 0]
  /\ realized_today = 0
  /\ last_attempt = NoAttempt
  /\ failed_close = {}
  /\ heartbeat_warnings = 0
  /\ close_orders = {}
  /\ exchange_calls = {}
  /\ stopped_by = "nothing"
  /\ order_pipeline = << >>
  /\ account_manager = NewAccountManager(initial_balance, 0)
  /\ date_today = 0
  /\ daily_pnl_read = NoRead
  /\ safe_list = [s \in Symbols |-> max_position_size_usd(s)]

\* The engine started by hand (python -m apps.executor.multi_symbol_engine)
Init ==
  /\ EngineStarted
  /\ FeedIdle
  /\ WebSocketIdle
  /\ supervised = FALSE
  /\ ManagerIdle
  /\ RiskIdle

\* ------------------------------------------------- _execute_trade
NoPosition == [side |-> "none", entry_price |-> 0, quantity |-> 0, stop_loss |-> 0,
               take_profit |-> 0]
\* What one call of _execute_trade did: result is "skipped" (position already
\* open), "aborted" (no price, no balance, size 0, dry run), "failed"
\* (place_order raised or returned a falsy result) or "ok"; stages are the
\* checks it ran, in order; tracked says whether it recorded a position.
Outcome(result, stages, tracked, position) ==
  [result |-> result, stages |-> stages, tracked |-> tracked, position |-> position]

\* connector.place_order as the engine sees it
PlaceOrder == IF exchange \in {"up", "ohlcv_raises"} THEN "ok"
              ELSE IF exchange = "order_falsy" THEN "falsy"
              ELSE "raise"

\* _execute_trade without its `if self.dry_run: return`
DryRunIgnored == FALSE

\* _execute_trade: `if self.dry_run:` before place_order
DryRunReturns == dry_run

\* _execute_trade from the ticker fetch on (lines 410-547); df is
\* self.latest_candles[symbol] as _update_candles left it
EntryAttempt(symbol, side, balance, df) ==
  LET current_price == price[symbol]
      stop_loss == calculate_dynamic_stop_loss(df, current_price,
                                               IF side = "buy" THEN "long" ELSE "short")
      sized == calculate_safe_size(current_daily_loss, profile_max_risk_per_trade,
                                   balance, current_price, stop_loss,
                                   win_rate_estimate, reward_ratio_estimate)
      max_position_usd == safe_list[symbol]
      quantity == IF sized * current_price > max_position_usd * QtyScale
                  THEN (max_position_usd * QtyScale) \div current_price
                  ELSE sized
      distance_to_sl == Abs(current_price - stop_loss)
      take_profit == IF side = "buy" THEN current_price + distance_to_sl * tp_rr_ratio
                     ELSE current_price - distance_to_sl * tp_rr_ratio
  IN  IF exchange = "down" THEN Outcome("aborted", << >>, FALSE, NoPosition)
      ELSE IF balance <= 0 THEN Outcome("aborted", << >>, FALSE, NoPosition)
      ELSE IF sized <= 0
        THEN Outcome("aborted", << "stop_loss", "sizing" >>, FALSE, NoPosition)
      ELSE IF DryRunReturns
        THEN Outcome("aborted", << "stop_loss", "sizing" >>, FALSE, NoPosition)
      ELSE IF PlaceOrder = "raise"
        THEN Outcome("failed", << "stop_loss", "sizing" >>, FALSE, NoPosition)
      ELSE IF PlaceOrder = "falsy"
        THEN Outcome("failed", << "stop_loss", "sizing" >>, FALSE, NoPosition)
      ELSE Outcome("ok", << "stop_loss", "sizing", "order" >>, TRUE,
                   [side |-> side, entry_price |-> current_price,
                    quantity |-> quantity, stop_loss |-> stop_loss,
                    take_profit |-> take_profit])

\* _execute_trade without its check of self.open_positions
ExecuteTradeUnchecked(symbol, side, balance, df) ==
  EntryAttempt(symbol, side, balance, df)

\* _execute_trade applying the table's cap to the position already tracked
ExecuteTradeResizing(symbol, side, balance, df) ==
  IF symbol \in DOMAIN open_positions
  THEN LET position == open_positions[symbol]
           capped == (safe_list[symbol] * QtyScale) \div position.entry_price
       IN  Outcome("skipped", << >>, TRUE,
                   [position EXCEPT !.quantity = Min(position.quantity, capped)])
  ELSE EntryAttempt(symbol, side, balance, df)

\* MultiSymbolEngine._execute_trade
ExecuteTrade(symbol, side, balance, df) ==
  IF symbol \in DOMAIN open_positions
  THEN Outcome("skipped", << >>, FALSE, NoPosition)
  ELSE EntryAttempt(symbol, side, balance, df)

\* MultiSymbolEngine._update_candles: the fetched frame, or the old one on failure
UpdateCandles(symbol, df) ==
  IF exchange \in {"down", "ohlcv_raises"} THEN latest_candles
  ELSE [latest_candles EXCEPT ![symbol] = df]

\* on_tick's guard and _check_signal: is _execute_trade called for this tick?
TradeAttempted(candles, sig) == candles # NoFrame /\ sig \in {"buy", "sell"}

\* MultiSymbolEngine.on_tick for one tick of a tracked symbol
OnTick(symbol, df, sig, balance) ==
  /\ sig \in {"buy", "sell"} => entries_total < MaxEntries
  /\ LET candles == UpdateCandles(symbol, df)
         called == TradeAttempted(candles[symbol], sig)
         out == IF called THEN ExecuteTrade(symbol, sig, balance, candles[symbol])
                ELSE Outcome("idle", << >>, FALSE, NoPosition)
     IN  /\ latest_candles' = candles
         /\ open_positions' = IF out.tracked
                              THEN DictSet(open_positions, symbol, out.position)
                              ELSE open_positions
         /\ entries_total' = IF out.result = "ok" THEN entries_total + 1
                             ELSE entries_total
         /\ exchange_position' = IF out.result = "ok"
                                 THEN [exchange_position EXCEPT ![symbol] = @ + 1]
                                 ELSE exchange_position
         /\ order_pipeline' = IF out.result = "ok" THEN out.stages ELSE order_pipeline
         /\ last_attempt' = IF called THEN [symbol |-> symbol, result |-> out.result]
                            ELSE NoAttempt
         /\ failed_close' = {}
         /\ heartbeat_warnings' = 0
         /\ close_orders' = {}
         /\ exchange_calls' = IF called /\ out.result \in {"ok", "failed"}
                              THEN {"place_order"} ELSE {}
  /\ UNCHANGED << running, dry_run, current_daily_loss, connector_closed,
                  zmq_socket_closed, zmq_context_termed, monitor_pc,
                  realized_today, stopped_by, price, exchange, cfg_vars, risk_vars, ws_vars,
                  sm_vars, am_vars >>

\* _main_loop receives a tick of a tracked symbol and on_tick handles it
RecvTick(symbol, df, sig, balance) ==
  /\ main_pc = "recv" /\ running
  /\ OnTick(symbol, df, sig, balance)
  /\ UNCHANGED << main_pc, feed_vars >>

\* _main_loop receives a tick of a symbol that is not in self.symbols
RecvUntracked ==
  /\ main_pc = "recv" /\ running
  /\ UntrackedSymbol \notin Symbols
  /\ last_attempt' = NoAttempt
  /\ failed_close' = {}
  /\ heartbeat_warnings' = 0
  /\ close_orders' = {}
  /\ exchange_calls' = {}
  /\ UNCHANGED << running, dry_run, open_positions, latest_candles, current_daily_loss,
                  connector_closed, zmq_socket_closed, zmq_context_termed, main_pc,
                  monitor_pc, entries_total, exchange_position, realized_today,
                  stopped_by, order_pipeline, env_vars, am_vars >>


\* MultiSymbolEngine.stop
Stop ==
  /\ running' = FALSE
  /\ connector_closed' = TRUE
  /\ zmq_socket_closed' = TRUE
  /\ zmq_context_termed' = TRUE

\* start()'s finally once _main_loop has returned: monitor_task.cancel(), then
\* `await monitor_task` suspends start()
CancelMonitor ==
  /\ monitor_pc' = "cancelling"
  /\ main_pc' = "await_monitor"

\* _main_loop leaves its while loop: `except` clauses, then `finally: stop()`,
\* then start()'s finally
LeaveMainLoop(cause) ==
  /\ Stop
  /\ CancelMonitor
  /\ stopped_by' = cause
  /\ UNCHANGED << dry_run, open_positions, latest_candles, current_daily_loss,
                  entries_total, exchange_position, realized_today, last_attempt,
                  failed_close, heartbeat_warnings, close_orders, exchange_calls,
                  order_pipeline,
                  env_vars, am_vars >>

\* Where _main_loop goes from `except asyncio.TimeoutError`, were the timeout
\* fatal
OnHeartbeatTimeoutFatal == "leave"

\* Where _main_loop goes from `except asyncio.TimeoutError`: it logs two
\* warnings and `continue`s
OnHeartbeatTimeout == "recv"

\* asyncio.wait_for times out after heartbeat_timeout
HeartbeatTimeout ==
  /\ main_pc = "recv" /\ running
  /\ heartbeat_warnings < MaxTimeouts
  /\ heartbeat_warnings' = heartbeat_warnings + 1
  /\ last_attempt' = NoAttempt
  /\ failed_close' = {}
  /\ close_orders' = {}
  /\ exchange_calls' = {}
  /\ IF OnHeartbeatTimeout = "recv"
     THEN UNCHANGED << running, connector_closed, zmq_socket_closed,
                       zmq_context_termed, main_pc, monitor_pc, stopped_by >>
     ELSE Stop /\ CancelMonitor /\ stopped_by' = "timeout"
  /\ UNCHANGED << dry_run, open_positions, latest_candles, current_daily_loss,
                  entries_total, exchange_position, realized_today, order_pipeline,
                  env_vars, am_vars >>

\* What _main_loop does with an exception raised while receiving and decoding
\* (tuple unpacking of the frames, topic.decode, msgpack.unpackb): the inner
\* try only catches asyncio.TimeoutError
OnDecodeError == LeaveMainLoop("malformed")

\* A message that cannot be decoded
MalformedKinds == {"frames", "payload"}
RecvMalformed(kind) ==
  /\ main_pc = "recv" /\ running
  /\ kind \in MalformedKinds
  /\ OnDecodeError

\* KeyboardInterrupt / cancellation of the main task while it waits in recv
Interrupt ==
  /\ main_pc = "recv" /\ running
  /\ LeaveMainLoop("interrupt")

\* ---------------------------------------------- monitor_open_positions
\* The chain without its stop-loss branches
CloseReasonTakeProfitOnly(position, current_price) ==
  IF position.side = "buy" /\ current_price >= position.take_profit THEN "take_profit"
  ELSE IF position.side = "sell" /\ current_price <= position.take_profit THEN "take_profit"
  ELSE "none"

\* The chain with the comparisons of the two sides exchanged
CloseReasonSidesExchanged(position, current_price) ==
  IF position.side = "sell" /\ current_price >= position.take_profit THEN "take_profit"
  ELSE IF position.side = "buy" /\ current_price <= position.take_profit THEN "take_profit"
  ELSE IF position.side = "sell" /\ current_price <= position.stop_loss THEN "stop_loss"
  ELSE IF position.side = "buy" /\ current_price >= position.stop_loss THEN "stop_loss"
  ELSE "none"

\* The if/elif chain of monitor_open_positions (lines 577-591)
CloseReason(position, current_price) ==
  IF position.side = "buy" /\ current_price >= position.take_profit THEN "take_profit"
  ELSE IF position.side = "sell" /\ current_price <= position.take_profit THEN "take_profit"
  ELSE IF position.side = "buy" /\ current_price <= position.stop_loss THEN "stop_loss"
  ELSE IF position.side = "sell" /\ current_price >= position.stop_loss THEN "stop_loss"
  ELSE "none"

\* close_position's pnl, in USDT
RealizedPnl(position, current_price) ==
  IF position.side = "buy"
  THEN ((current_price - position.entry_price) * position.quantity) \div QtyScale
  ELSE ((position.entry_price - current_price) * position.quantity) \div QtyScale

\* No closing order placed, position kept
NoClose == [order |-> "none", deleted |-> FALSE, side |-> "none", quantity |-> 0]
\* close_position: close_side
CloseSide(position) == IF position.side = "buy" THEN "sell" ELSE "buy"

\* close_position deleting the position whatever place_order did
ClosePositionAlways(symbol, current_price) ==
  IF dry_run THEN [NoClose EXCEPT !.deleted = TRUE]
  ELSE [order |-> PlaceOrder, deleted |-> TRUE,
        side |-> CloseSide(open_positions[symbol]),
        quantity |-> open_positions[symbol].quantity]

\* MultiSymbolEngine.close_position: the result of the closing order it placed
\* ("none" in a dry run) and whether it deleted the tracked position
ClosePosition(symbol, current_price) ==
  LET position == open_positions[symbol]
      close_side == CloseSide(position)
  IN  IF dry_run THEN [NoClose EXCEPT !.deleted = TRUE]
      ELSE [order |-> PlaceOrder, deleted |-> PlaceOrder = "ok",
            side |-> close_side, quantity |-> position.quantity]

\* One iteration of the for loop of monitor_open_positions
MonitorSymbol(symbol) ==
  IF exchange = "down" THEN NoClose
  ELSE IF CloseReason(open_positions[symbol], price[symbol]) = "none" THEN NoClose
  ELSE ClosePosition(symbol, price[symbol])

\* One pass of monitor_open_positions' while loop, from one sleep to the next
MonitorPass ==
  /\ monitor_pc \in {"created", "sleeping"}
  /\ main_pc = "recv" /\ running
  /\ LET tracked == DOMAIN open_positions
         closed == {s \in tracked : MonitorSymbol(s).order = "ok"}
         pnl == [s \in closed |-> RealizedPnl(open_positions[s], price[s])]
     IN  /\ open_positions' = DictDel(open_positions,
                                      {s \in tracked : MonitorSymbol(s).deleted})
         /\ exchange_position' = [s \in Symbols |->
                                    exchange_position[s] - IF s \in closed THEN 1 ELSE 0]
         /\ realized_today' = realized_today + SumOver(pnl, closed)
         /\ failed_close' = {s \in tracked : MonitorSymbol(s).order \in {"raise", "falsy"}}
         /\ close_orders' = {[symbol |-> s, side |-> MonitorSymbol(s).side,
                               quantity |-> MonitorSymbol(s).quantity] :
                                s \in {x \in tracked : MonitorSymbol(x).order # "none"}}
         /\ exchange_calls' = IF \E s \in tracked : MonitorSymbol(s).order # "none"
                              THEN {"place_order"} ELSE {}
         /\ last_attempt' = NoAttempt
         /\ heartbeat_warnings' = 0
  /\ monitor_pc' = "sleeping"
  /\ UNCHANGED << running, dry_run, latest_candles, current_daily_loss,
                  connector_closed, zmq_socket_closed, zmq_context_termed, main_pc,
                  entries_total, stopped_by, order_pipeline, env_vars, am_vars >>

\* The cancelled monitor task is resumed with CancelledError and finishes
MonitorCancelled ==
  /\ monitor_pc = "cancelling"
  /\ monitor_pc' = "done"
  /\ UNCHANGED << running, dry_run, open_positions, latest_candles, current_daily_loss,
                  connector_closed, zmq_socket_closed, zmq_context_termed, main_pc,
                  entries_total, exchange_position, realized_today, last_attempt,
                  failed_close, heartbeat_warnings, close_orders, exchange_calls,
                  stopped_by,
                  order_pipeline, env_vars, am_vars >>

\* `await monitor_task` returns: start() is over
StartReturns ==
  /\ main_pc = "await_monitor" /\ monitor_pc = "done"
  /\ main_pc' = "done"
  /\ UNCHANGED << running, dry_run, open_positions, latest_candles, current_daily_loss,
                  connector_closed, zmq_socket_closed, zmq_context_termed, monitor_pc,
                  entries_total, exchange_position, realized_today, last_attempt,
                  failed_close, heartbeat_warnings, close_orders, exchange_calls,
                  stopped_by,
                  order_pipeline, env_vars, am_vars >>

\* ------------------------------------------------------ environment
\* Values an operator gives a symbol's max_position_size_usd
PositionSizes(symbol) == {max_position_size_usd(symbol), 4 * 100}

\* The configuration table is edited while the engine runs
ConfigChange(symbol, cap) ==
  /\ running
  /\ safe_list[symbol] # cap
  /\ safe_list' = [safe_list EXCEPT ![symbol] = cap]
  /\ UNCHANGED << mse_vars, price, exchange, feed_vars, risk_vars, ws_vars, sm_vars,
                  am_vars >>

\* The exchange is observed for as long as the engine runs.
PriceMove(symbol, p) ==
  /\ running
  /\ price[symbol] # p
  /\ price' = [price EXCEPT ![symbol] = p]
  /\ UNCHANGED << mse_vars, exchange, feed_vars, cfg_vars, risk_vars, ws_vars, sm_vars, am_vars >>

ExchangeChange(e) ==
  /\ running
  /\ exchange # e
  /\ exchange' = e
  /\ UNCHANGED << mse_vars, price, feed_vars, cfg_vars, risk_vars, ws_vars, sm_vars, am_vars >>

Environment ==
  \/ \E s \in Symbols, p \in Prices : PriceMove(s, p)
  \/ \E e \in ExchangeStates : ExchangeChange(e)

MainLoop ==
  \/ \E s \in Symbols, df \in CandleFrames, sig \in SignalOutcomes, b \in Balances :
       RecvTick(s, df, sig, b)
  \/ RecvUntracked
  \/ HeartbeatTimeout
  \/ \E k \in MalformedKinds : RecvMalformed(k)
  \/ Interrupt
  \/ StartReturns

Monitor ==
  \/ MonitorPass
  \/ MonitorCancelled

Next == MainLoop \/ Monitor \/ Environment

\* asyncio resumes every ready task: the monitor task runs again after each sleep
Spec == Init /\ [][Next]_vars /\ WF_vars(Monitor)

\* The engine on an exchange that answers, with its configuration table
\* edited under it (SpecCfg)
NextCfg ==
  \/ MainLoop
  \/ Monitor
  \/ \E s \in Symbols, p \in Prices : PriceMove(s, p)
  \/ \E s \in Symbols : \E cap \in PositionSizes(s) : ConfigChange(s, cap)

SpecCfg == Init /\ [][NextCfg]_vars

\* ============================================================ AccountManager
\* on its own, driven by any client (SpecAM)
AccountSides == {"long", "short"}
\* Position sizes a client passes: 1.0 and 2.0
AccountSizes == {QtyScale, 2 * QtyScale}
TradesTracked(am) == Len(am.closed_trades) + Cardinality(DOMAIN am.open_positions)

InitAM ==
  /\ Init
  /\ dry_run = TRUE

\* a client calls open_position
AccountOpen(symbol, side, entry_price, size) ==
  /\ TradesTracked(account_manager) < MaxTrades
  /\ account_manager' =
       am_open_position(account_manager, symbol, side, entry_price, size, 0, 0,
                        date_today).am
  /\ UNCHANGED << mse_vars, env_vars, date_today, daily_pnl_read >>

\* a client calls close_position
AccountClose(symbol, exit_price) ==
  /\ symbol \in DOMAIN account_manager.open_positions
  /\ account_manager' =
       am_close_position(account_manager, symbol, exit_price, date_today).am
  /\ UNCHANGED << mse_vars, env_vars, date_today, daily_pnl_read >>

\* a client calls close_position for a symbol without position
AccountCloseNothing(symbol) ==
  /\ symbol \notin DOMAIN account_manager.open_positions
  /\ am_close_position(account_manager, symbol, price[symbol], date_today).ended
       = "returned_none"
  /\ UNCHANGED vars

\* a client calls get_daily_pnl
AccountGetDailyPnl ==
  /\ LET read == get_daily_pnl(account_manager, date_today)
     IN  /\ account_manager' = read.am
         /\ daily_pnl_read' = [value |-> read.value, day |-> date_today,
                               trades |-> Len(account_manager.closed_trades)]
  /\ UNCHANGED << mse_vars, env_vars, date_today >>

\* midnight: date.today() moves on
DayRolls ==
  /\ date_today < MaxDays
  /\ date_today' = date_today + 1
  /\ UNCHANGED << mse_vars, env_vars, account_manager, daily_pnl_read >>

NextAM ==
  \/ \E s \in Symbols, side \in AccountSides, p \in Prices, size \in AccountSizes :
       AccountOpen(s, side, p, size)
  \/ \E s \in Symbols, p \in Prices : AccountClose(s, p)
  \/ \E s \in Symbols : AccountCloseNothing(s)
  \/ AccountGetDailyPnl
  \/ DayRolls

SpecAM == InitAM /\ [][NextAM]_vars

\* ============================================================ TradingEngine
\* src/apps/executor/trading_engine.py (SpecTE).  The engine trades
\* DEFAULT_SYMBOL; of the variables above it has running, dry_run,
\* latest_candles (its one frame is latest_candles[DEFAULT_SYMBOL]), the risk
\* manager's current_daily_loss and the connector, and it owns account_manager.

\* A signal of get_combined_signal: its type and whether it carries the
\* strategy's stop_loss and take_profit (momentum_strategy.py: 2 % and 4 % off
\* the price) or leaves both None.
EngineSignals == [type : {"none", "raise", "filtered"}, brackets : {FALSE}] \cup
                 [type : {"buy", "sell"}, brackets : BOOLEAN]
SignalStopLoss(type, current_price) ==
  IF type = "buy" THEN (current_price * 98) \div 100 ELSE (current_price * 102) \div 100
SignalTakeProfit(type, current_price) ==
  IF type = "buy" THEN (current_price * 104) \div 100 ELSE (current_price * 96) \div 100

\* What connector.close_position (cancel_all_orders) gives back when the
\* exchange accepts the request: a list of cancelled orders, or an empty list
\* (turned into None)
CancelResults == {"orders", "nothing"}

\* What connector.create_stop_loss does once the market order is executed:
\* it returns the order, or the exchange rejects it and it raises
StopLossResults == {"ok", "raise"}

\* TradingEngine.__init__ and start() up to the first iteration of _trading_loop
InitTE ==
  /\ running = TRUE
  /\ dry_run \in BOOLEAN
  /\ open_positions = NoPositions
  /\ latest_candles \in {[s \in Symbols |-> IF s = DEFAULT_SYMBOL THEN df ELSE NoFrame] :
                           df \in {NoFrame, FullFrame}}
  /\ current_daily_loss = 0
  /\ connector_closed = FALSE
  /\ zmq_socket_closed = FALSE
  /\ zmq_context_termed = FALSE
  /\ main_pc = "trading_loop"
  /\ monitor_pc = "none"
  /\ price = [s \in Symbols |-> 100]
  /\ exchange = "up"
  /\ entries_total = 0
  /\ exchange_position = [s \in Symbols |-> 0]
  /\ realized_today = 0
  /\ last_attempt = NoAttempt
  /\ failed_close = {}
  /\ heartbeat_warnings = 0
  /\ close_orders = {}
  /\ exchange_calls = {}
  /\ stopped_by = "nothing"
  /\ order_pipeline = << >>
  /\ account_manager = NewAccountManager(FundedBalance, 0)
  /\ date_today = 0
  /\ daily_pnl_read = NoRead
  /\ safe_list = [s \in Symbols |-> max_position_size_usd(s)]
  /\ FeedIdle
  /\ WebSocketIdle
  /\ supervised = FALSE
  /\ ManagerIdle
  /\ RiskIdle

\* TradingEngine._execute_trade: the AccountManager afterwards, whether the
\* market order was executed, and the checks run before it
EngineExecuteTrade(am, sig, balance, df, stop_order) ==
  LET type == sig.type
      current_price == price[DEFAULT_SYMBOL]
      side == IF type = "buy" THEN "long" ELSE "short"
      given == IF sig.brackets THEN SignalStopLoss(type, current_price) ELSE 0
      stop_loss == IF given = 0
                   THEN calculate_dynamic_stop_loss(df, current_price, side)
                   ELSE given
      take_profit == IF sig.brackets THEN SignalTakeProfit(type, current_price) ELSE 0
      position_size == calculate_safe_size(current_daily_loss, MAX_RISK_PER_TRADE,
                                           balance, current_price, stop_loss,
                                           win_rate_estimate, reward_ratio_estimate)
      stages == << "volatility" >> \o (IF given = 0 THEN << "stop_loss" >> ELSE << >>)
                  \o << "sizing" >>
      tracked == am_open_position(am, DEFAULT_SYMBOL, side, current_price,
                                  position_size, stop_loss, take_profit, date_today).am
  IN  IF exchange = "down"
        THEN [am |-> am, order |-> FALSE, stages |-> << >>, calls |-> {}]
      ELSE IF ~validate_volatility(df)
        THEN [am |-> am, order |-> FALSE, stages |-> << >>, calls |-> {}]
      ELSE IF position_size = 0
        THEN [am |-> am, order |-> FALSE, stages |-> stages, calls |-> {}]
      ELSE IF dry_run
        THEN [am |-> tracked, order |-> FALSE, stages |-> stages, calls |-> {}]
      ELSE IF PlaceOrder # "ok"
        THEN [am |-> am, order |-> FALSE, stages |-> stages,
              calls |-> {"create_market_order"}]
      \* the except clause logs the error: open_position is not reached
      ELSE IF stop_order = "raise"
        THEN [am |-> am, order |-> TRUE, stages |-> stages \o << "order" >>,
              calls |-> {"create_market_order", "create_stop_loss"}]
      ELSE [am |-> tracked, order |-> TRUE, stages |-> stages \o << "order" >>,
            calls |-> {"create_market_order", "create_stop_loss"}]

\* TradingEngine._close_position: the AccountManager afterwards and the
\* order-sending calls made
EngineClosePosition(am, cancelled) ==
  LET calls == IF dry_run THEN {} ELSE {"close_position"}
  IN  IF exchange = "down" THEN [am |-> am, calls |-> {}]
      ELSE IF ~dry_run /\ PlaceOrder = "raise" THEN [am |-> am, calls |-> calls]
      \* order.get('id') on a list raises AttributeError
      ELSE IF ~dry_run /\ cancelled = "orders" THEN [am |-> am, calls |-> calls]
      ELSE [am |-> am_close_position(am, DEFAULT_SYMBOL, price[DEFAULT_SYMBOL],
                                     date_today).am,
            calls |-> calls]

\* TradingEngine._monitor_position
EngineMonitorPosition(am, cancelled) ==
  LET position == am.open_positions[DEFAULT_SYMBOL]
      current_price == price[DEFAULT_SYMBOL]
  IN  IF exchange = "down" THEN [am |-> am, calls |-> {}]
      ELSE IF position.take_profit = 0 THEN [am |-> am, calls |-> {}]
      ELSE IF position.side = "long" /\ current_price >= position.take_profit
        THEN EngineClosePosition(am, cancelled)
      ELSE IF position.side = "short" /\ current_price <= position.take_profit
        THEN EngineClosePosition(am, cancelled)
      ELSE [am |-> am, calls |-> {}]

\* One iteration of _trading_loop, from one asyncio.sleep to the next
TradingLoop(df, sig, balance, cancelled, stop_order) ==
  /\ main_pc = "trading_loop" /\ running
  /\ LET candles == UpdateCandles(DEFAULT_SYMBOL, df)
         read == get_daily_pnl(account_manager, date_today)
         tracked == DEFAULT_SYMBOL \in DOMAIN read.am.open_positions
         trade == ~tracked /\ candles[DEFAULT_SYMBOL] # NoFrame
                    /\ sig.type \in {"buy", "sell"}
         out == EngineExecuteTrade(read.am, sig, balance, candles[DEFAULT_SYMBOL],
                                   stop_order)
     IN  /\ trade => TradesTracked(account_manager) < MaxTrades
         /\ trade => entries_total < MaxEntries
         /\ latest_candles' = candles
         /\ current_daily_loss' = read.value
         /\ daily_pnl_read' = [value |-> read.value, day |-> date_today,
                               trades |-> Len(account_manager.closed_trades)]
         /\ account_manager' = IF tracked
                                 THEN EngineMonitorPosition(read.am, cancelled).am
                               ELSE IF trade THEN out.am
                               ELSE read.am
         /\ exchange_calls' = IF tracked
                                THEN EngineMonitorPosition(read.am, cancelled).calls
                              ELSE IF trade THEN out.calls
                              ELSE {}
         /\ entries_total' = IF trade /\ out.order THEN entries_total + 1
                             ELSE entries_total
         /\ order_pipeline' = IF trade /\ out.order THEN out.stages ELSE order_pipeline
  /\ UNCHANGED << running, dry_run, open_positions, connector_closed, zmq_socket_closed,
                  zmq_context_termed, main_pc, monitor_pc, exchange_position,
                  realized_today, last_attempt, failed_close, heartbeat_warnings,
                  close_orders, stopped_by, env_vars, date_today >>

\* TradingEngine.stop, run by start()'s finally once _trading_loop is interrupted
EngineStop(cancelled) ==
  /\ main_pc = "trading_loop" /\ running
  /\ running' = FALSE
  /\ main_pc' = "done"
  /\ connector_closed' = TRUE
  /\ LET closing == IF DEFAULT_SYMBOL \in DOMAIN account_manager.open_positions
                    THEN EngineClosePosition(account_manager, cancelled)
                    ELSE [am |-> account_manager, calls |-> {}]
         \* print_stats -> get_stats -> reset_daily_metrics
         stats == reset_daily_metrics(closing.am, date_today)
     IN  /\ account_manager' = stats
         /\ exchange_calls' = closing.calls
         /\ daily_pnl_read' = [value |-> stats.daily_pnl, day |-> date_today,
                               trades |-> Len(stats.closed_trades)]
  /\ UNCHANGED << dry_run, open_positions, latest_candles, current_daily_loss,
                  zmq_socket_closed, zmq_context_termed, monitor_pc, entries_total,
                  exchange_position, realized_today, last_attempt, failed_close,
                  heartbeat_warnings, close_orders, stopped_by, order_pipeline,
                  env_vars, date_today >>

EngineLoop ==
  \E df \in EngineFrames, sig \in EngineSignals, b \in Balances, c \in CancelResults,
     o \in (IF dry_run THEN {"ok"} ELSE StopLossResults) :
    TradingLoop(df, sig, b, c, o)

NextTE ==
  \/ EngineLoop
  \/ \E c \in CancelResults : EngineStop(c)
  \/ \E p \in Prices : PriceMove(DEFAULT_SYMBOL, p)
  \/ \E e \in ExchangeStates : ExchangeChange(e)
  \/ DayRolls

\* _trading_loop sleeps 60 s (5 s after an error) and iterates again
SpecTE == InitTE /\ [][NextTE]_vars /\ WF_vars(EngineLoop)

\* ------------------------------------------------- model sanity
\* Every division made on the tracked positions was exact.
ExactArithmetic ==
  \A s \in DOMAIN open_positions :
    LET pos == open_positions[s]
    IN  /\ pos.quantity > 0
        /\ \A cap \in PositionSizes(s) : (cap * QtyScale) % pos.entry_price = 0
        /\ \A p \in Prices : ((p - pos.entry_price) * pos.quantity) % QtyScale = 0

\* ============================================================ properties
\* of MultiSymbolEngine (Spec)

\* qty * entry price of a tracked position, in USDT
Notional(position) == (position.quantity * position.entry_price) \div QtyScale
\* The position of symbol s is at or beyond its take-profit or its stop-loss
Crossed(s) ==
  /\ s \in DOMAIN open_positions
  /\ LET pos == open_positions[s]
     IN  \/ pos.side = "buy" /\ (price[s] >= pos.take_profit \/ price[s] <= pos.stop_loss)
         \/ pos.side = "sell" /\ (price[s] <= pos.take_profit \/ price[s] >= pos.stop_loss)

\* C1: a symbol never has more than one tracked position (the exchange holds
\* one entry per tracked symbol and none for the others), and a signal that
\* arrives for a symbol while its position is tracked places no entry order and
\* leaves the tracked position as it was.
C1_OnePositionPerSymbol ==
  /\ [](\A s \in Symbols :
          /\ exchange_position[s] \in {0, 1}
          /\ exchange_position[s] = 1 <=> s \in DOMAIN open_positions)
  /\ [][\A s \in Symbols :
          (s \in DOMAIN open_positions /\ last_attempt'.symbol = s)
            => /\ exchange_position' = exchange_position
               /\ entries_total' = entries_total
               /\ s \in DOMAIN open_positions'
               /\ open_positions'[s] = open_positions[s]]_vars

\* A signal arrived for a symbol whose position is tracked, and was skipped.
C1_Witness ==
  /\ last_attempt.result = "skipped"
  /\ last_attempt.symbol \in DOMAIN open_positions
  /\ exchange_position[last_attempt.symbol] = 1

\* C2: every entry order is preceded, in this order, by a passed volatility
\* gate, the stop-loss computation, a positive sizing and the portfolio approval.
RequiredPipeline == << "volatility", "stop_loss", "sizing", "portfolio", "order" >>
C2_ChecksPrecedeOrder ==
  order_pipeline # << >> => order_pipeline = RequiredPipeline

\* C3: once the losses realized today have reached balance * max_daily_drawdown,
\* no further entry order is placed.
DailyLossLimit == (FundedBalance * max_daily_drawdown) \div PctScale
C3_CircuitBreakerBlocksEntries ==
  [][realized_today <= 0 - DailyLossLimit => entries_total' = entries_total]_vars

\* C4: the notionals of the tracked positions sum to at most
\* balance * max_total_exposure.
C4_TotalExposureBounded ==
  SumOver([s \in DOMAIN open_positions |-> Notional(open_positions[s])],
          DOMAIN open_positions) * PctScale
    <= FundedBalance * max_total_exposure

\* C5: on shutdown the connector, the ZMQ socket and the ZMQ context are closed
\* only once the monitor task has been cancelled and has terminated.
C5_MonitorEndsBeforeResourcesClose ==
  (connector_closed \/ zmq_socket_closed \/ zmq_context_termed) => monitor_pc = "done"

\* C6: when place_order raises or returns a falsy result the tracked positions
\* stay as they were: a failed entry tracks nothing, a failed close leaves the
\* position tracked with every field unchanged.
C6_FailedOrderLeavesPositions ==
  [][/\ last_attempt'.result = "failed" => open_positions' = open_positions
     /\ \A s \in failed_close' :
          /\ s \in DOMAIN open_positions'
          /\ open_positions'[s] = open_positions[s]]_vars

\* A closing order failed in the last monitor pass, its position is still
\* tracked; or an entry order failed in the last tick and nothing is tracked
\* for its symbol.
C6_Witness ==
  \/ /\ failed_close # {}
     /\ failed_close \subseteq DOMAIN open_positions
  \/ /\ last_attempt.result = "failed"
     /\ last_attempt.symbol \notin DOMAIN open_positions

\* C7: a message that cannot be decoded, or a tick whose handling raises, does
\* not stop the engine: the main loop is still running afterwards.
C7_FaultsDoNotStopEngine ==
  stopped_by = "malformed" => (running /\ main_pc = "recv")

\* C8: while the engine runs and the exchange answers, a tracked position whose
\* price stays at or beyond its take-profit or stop-loss is eventually closed by
\* the monitor.
C8_MonitorEventuallyCloses ==
  \A s \in Symbols : []<>(~(running /\ exchange = "up" /\ Crossed(s)))

\* The monitor has closed a crossed position on the exchange: its result is
\* realized and the position is no longer tracked.
C8_Witness ==
  /\ running /\ monitor_pc = "sleeping"
  /\ realized_today # 0
  /\ exchange_position = [s \in Symbols |-> 0]
  /\ DOMAIN open_positions = {}

\* ============================================================ properties
\* of AccountManager (SpecAM)

\* C10: when one trade closed on a day and the next one on the day after, the
\* daily P&L read after the second close, on that second day, is the second
\* trade's P&L alone.
C10_DailyPnlIsTodaysOnly ==
  LET closed == account_manager.closed_trades
      n == Len(closed)
  IN  (/\ n >= 2
       /\ daily_pnl_read.trades = n
       /\ daily_pnl_read.day = closed[n].exit_day
       /\ closed[n - 1].exit_day = closed[n].exit_day - 1)
      => daily_pnl_read.value = closed[n].realized_pnl

\* ============================================================ properties
\* of TradingEngine (SpecTE)

\* The tracked position of DEFAULT_SYMBOL is at or beyond its take-profit or
\* its stop-loss
EngineCrossed ==
  /\ DEFAULT_SYMBOL \in DOMAIN account_manager.open_positions
  /\ LET pos == account_manager.open_positions[DEFAULT_SYMBOL]
         p == price[DEFAULT_SYMBOL]
     IN  \/ pos.side = "long" /\ pos.take_profit # 0 /\ p >= pos.take_profit
         \/ pos.side = "short" /\ pos.take_profit # 0 /\ p <= pos.take_profit
         \/ pos.side = "long" /\ pos.stop_loss # 0 /\ p <= pos.stop_loss
         \/ pos.side = "short" /\ pos.stop_loss # 0 /\ p >= pos.stop_loss

\* C9: while TradingEngine runs and the exchange answers, a tracked position
\* whose price has crossed its stop-loss or take-profit, and stays there, is
\* eventually closed in the AccountManager (the symbol is Idle again).
C9_EngineClosesCrossedPosition ==
  []<>(~(running /\ exchange = "up" /\ EngineCrossed))

\* ============================================================ heartbeat

\* C12: a heartbeat timeout of _main_loop's receive is a warning, not a fault:
\* every step that counts one more timeout in a row leaves the engine
\* running and receiving, and the tracked positions and the candle buffers
\* as they were.
C12_HeartbeatTimeoutOnlyWarns ==
  [][heartbeat_warnings' > heartbeat_warnings
       => /\ running' /\ main_pc' = "recv"
          /\ connector_closed' = connector_closed
          /\ open_positions' = open_positions
          /\ latest_candles' = latest_candles]_vars

C12_Witness ==
  /\ heartbeat_warnings = MaxTimeouts
  /\ running /\ main_pc = "recv"
  /\ open_positions # NoPositions

\* ============================================================ feed handler,
\* message bus and orchestrator, with MultiSymbolEngine (SpecFeed)

\* _stream_tickers: max_reconnects
max_reconnects == 10

\* Where _main_loop is after it has taken a message, were on_tick started as
\* a task of its own (asyncio.create_task) instead of awaited
AfterDispatchSpawned == "recv"

\* Where _main_loop is after it has taken a message of a tracked symbol:
\* inside `await self.on_tick(symbol, data)`
AfterDispatch == "on_tick"

\* watch_tickers returns a ticker of one of the handler's symbols: the
\* handler resets reconnect_count and publishes [topic, data]
FeedReceives(symbol) ==
  /\ feed_pc = "streaming"
  /\ feed_sent < MaxMessages
  /\ reconnect_count' = 0
  /\ feed_sent' = feed_sent + 1
  /\ feed_queue' = Append(feed_queue, [seq |-> feed_sent + 1, symbol |-> symbol])
  /\ UNCHANGED << mse_vars, price, exchange, feed_pc, in_flight, handled, supervised,
                  cfg_vars, risk_vars, ws_vars, sm_vars, am_vars >>

\* watch_tickers raises or times out after 90 s: the handler counts the
\* failure, closes the exchange, sleeps 5 s and recreates it; at
\* max_reconnects failures in a row the while loop ends, close() runs and the
\* process exits
FeedFails ==
  /\ feed_pc = "streaming"
  /\ reconnect_count' = reconnect_count + 1
  /\ feed_pc' = IF reconnect_count + 1 < max_reconnects THEN "streaming" ELSE "exited"
  /\ UNCHANGED << mse_vars, price, exchange, feed_sent, feed_queue, in_flight, handled,
                  supervised, cfg_vars, risk_vars, ws_vars, sm_vars, am_vars >>

FeedHandler ==
  \/ \E s \in Symbols : FeedReceives(s)
  \/ FeedFails

\* orchestrator.py's monitor loop finds that the feed handler process has
\* exited: stop_all() terminates the engine process (SIGTERM, no handler in
\* the engine: none of its finally blocks runs), then sys.exit(1)
OrchestratorStopsAll ==
  /\ supervised
  /\ feed_pc = "exited"
  /\ main_pc # "terminated"
  /\ main_pc' = "terminated"
  /\ monitor_pc' = "terminated"
  /\ UNCHANGED << running, dry_run, open_positions, latest_candles, current_daily_loss,
                  connector_closed, zmq_socket_closed, zmq_context_termed,
                  entries_total, exchange_position, realized_today, last_attempt,
                  failed_close, heartbeat_warnings, close_orders, exchange_calls,
                  stopped_by,
                  order_pipeline, env_vars, am_vars >>

\* recv_multipart returns the oldest message not received yet; _main_loop
\* calls on_tick for it
FeedRecv ==
  /\ main_pc = "recv" /\ running
  /\ feed_queue # << >>
  /\ in_flight' = in_flight \cup {Head(feed_queue)}
  /\ feed_queue' = Tail(feed_queue)
  /\ main_pc' = AfterDispatch
  /\ UNCHANGED << running, dry_run, open_positions, latest_candles, current_daily_loss,
                  connector_closed, zmq_socket_closed, zmq_context_termed, monitor_pc,
                  entries_total, exchange_position, realized_today, last_attempt,
                  failed_close, heartbeat_warnings, close_orders, exchange_calls,
                  stopped_by,
                  order_pipeline, price, exchange, feed_pc, reconnect_count, feed_sent,
                  handled, supervised, cfg_vars, risk_vars, ws_vars, sm_vars, am_vars >>

\* an on_tick that has started runs to its end
FeedOnTick(df, sig, balance) ==
  /\ main_pc \in {"recv", "on_tick"}
  /\ \E m \in in_flight :
       /\ OnTick(m.symbol, df, sig, balance)
       /\ in_flight' = in_flight \ {m}
       /\ handled' = Append(handled, m.seq)
  /\ main_pc' = "recv"
  /\ UNCHANGED << feed_pc, reconnect_count, feed_sent, feed_queue, supervised >>

\* wait_for times out: no message arrived for heartbeat_timeout
FeedHeartbeatTimeout ==
  /\ feed_queue = << >>
  /\ HeartbeatTimeout

\* what _main_loop and start() do of themselves
FeedEngineSteps ==
  \/ FeedRecv
  \/ \E df \in CandleFrames, sig \in SignalOutcomes, b \in Balances : FeedOnTick(df, sig, b)
  \/ FeedHeartbeatTimeout
  \/ StartReturns

FeedMainLoop == FeedEngineSteps \/ Interrupt

InitFeed ==
  /\ EngineStarted
  /\ FeedIdle
  /\ WebSocketIdle
  /\ supervised \in BOOLEAN
  /\ ManagerIdle
  /\ RiskIdle

NextFeed == FeedHandler \/ OrchestratorStopsAll \/ FeedMainLoop \/ Monitor

\* The engine's tasks are resumed whenever they are ready and the
\* orchestrator polls its processes every second; nothing obliges the feed
\* handler to receive or to fail, and nobody to press Ctrl-C.
SpecFeed ==
  InitFeed /\ [][NextFeed]_vars
  /\ WF_vars(FeedEngineSteps) /\ WF_vars(Monitor) /\ WF_vars(OrchestratorStopsAll)

\* ============================================================ properties
\* of the engine behind its feed (SpecFeed)

\* C11: once the feed handler has used up its reconnect attempts and exited,
\* the engine eventually stops (stop() has run, or its process was ended)
\* instead of waiting for updates forever.
C11_FeedFailureStopsEngine ==
  (feed_pc = "exited") ~> (~running \/ main_pc = "terminated")

\* C13: updates are handled in their arrival order and one at a time: at most
\* one on_tick is in progress, it is the one of the oldest message not handled
\* yet, and the messages handled so far are the first ones published, in
\* their order.
C13_UpdatesHandledInOrder ==
  /\ Cardinality(in_flight) <= 1
  /\ \A m \in in_flight : m.seq = Len(handled) + 1
  /\ \A i \in 1..Len(handled) : handled[i] = i

C13_Witness ==
  /\ Len(handled) >= 1
  /\ in_flight # {}
  /\ feed_queue # << >>
  /\ entries_total >= 1

\* ============================================================ properties
\* of the position monitor (Spec)

\* C14: the monitor closes a position only when the price it fetched is at or
\* beyond the position's take-profit or stop-loss for its side: a position
\* that stops being tracked was crossed; every closing order a pass places is
\* for a crossed position, on the opposite side and for the position's whole
\* quantity; a position that is not crossed stays tracked as it was and no
\* order is placed for it.
C14_MonitorClosesOnlyCrossed ==
  [][\A s \in DOMAIN open_positions :
       /\ s \notin DOMAIN open_positions' => Crossed(s)
       /\ close_orders' # close_orders =>
            \A o \in close_orders' :
              o.symbol = s =>
                /\ Crossed(s)
                /\ o.side # open_positions[s].side
                /\ o.side \in {"buy", "sell"}
                /\ o.quantity = open_positions[s].quantity
       /\ ~Crossed(s) =>
            /\ s \in DOMAIN open_positions'
            /\ open_positions'[s] = open_positions[s]
            /\ exchange_position'[s] = exchange_position[s]]_vars

C14_Witness ==
  /\ \E o \in close_orders :
       /\ o.symbol \notin DOMAIN open_positions
       /\ o.quantity > 0
       /\ exchange_position[o.symbol] = 0
  /\ open_positions # NoPositions
  /\ \A s \in DOMAIN open_positions : ~Crossed(s)

\* ============================================================ properties
\* of on_tick (Spec)

\* C15: a tick handled while fetching candles fails makes no trade attempt:
\* _execute_trade is not called for it and no entry order is placed.
C15_NoAttemptWithoutCandles ==
  [][(exchange = "down" \/ exchange = "ohlcv_raises")
       => /\ entries_total' = entries_total
          /\ (last_attempt' = NoAttempt \/ last_attempt' = last_attempt)]_vars

\* ============================================================ StrategyManager
\* on its own, driven by any caller (SpecSM)

\* get_combined_signal: min_confidence's default
default_min_confidence == 60000
\* _weighted_signal: the least difference of the two weights
min_weight_diff == 30000

\* The branches of get_combined_signal's if/elif chain
SupportedMethods ==
  {"consensus", "majority", "weighted", "any", "first_match", "highest_confidence"}
\* A method name no branch handles
UnsupportedMethod == "unanimous"
MethodNames == SupportedMethods \cup {UnsupportedMethod}

\* Confidences of the strategies' signals: under, at and over the threshold
Confidences == {48000, 60000, 90000}
\* Entry prices of the strategies' signals.  With the confidences above and
\* the brackets below, every field is a multiple of 12, so that the mean of up
\* to four of them is exact
SignalPrices == {1200, 2400}
\* What one strategy's analyze() returns: None, Hold, or a Buy or Sell with
\* brackets 2 % and 4 % from its entry price
StrategySignals ==
  {NoSignal, Signal("hold", 0, 1200, 0, 0)}
    \cup {Signal("buy", c, p, (p * 98) \div 100, (p * 104) \div 100) :
            c \in Confidences, p \in SignalPrices}
    \cup {Signal("sell", c, p, (p * 102) \div 100, (p * 96) \div 100) :
            c \in Confidences, p \in SignalPrices}

RECURSIVE SumField(_, _)
SumField(signals, field) ==
  IF signals = << >> THEN 0
  ELSE Head(signals)[field] + SumField(Tail(signals), field)

\* [sig for sig in signals if sig.signal_type == t and sig.confidence >= min_confidence]
OfType(signals, t, min_confidence) ==
  SelectSeq(signals, LAMBDA sig : sig.signal_type = t /\ sig.confidence >= min_confidence)
\* [sig for sig in signals if sig.confidence >= min_confidence]
Confident(signals, min_confidence) ==
  SelectSeq(signals, LAMBDA sig : sig.confidence >= min_confidence)

\* _average_signals raised ValueError
AverageRaised == Signal("raise", 0, 0, 0, 0)

\* The first of the signals instead of their average
FirstOfSignals(signals, signal_type) ==
  IF signals = << >> THEN AverageRaised
  ELSE [Head(signals) EXCEPT !.signal_type = IF signal_type = "buy" THEN "buy" ELSE "sell"]

\* StrategyManager._average_signals; signal_type is "buy" or "sell"
average_signals(signals, signal_type) ==
  IF signals = << >> THEN AverageRaised
  ELSE LET n == Len(signals)
           stop_losses == SelectSeq(signals, LAMBDA s : s.stop_loss # 0)
           take_profits == SelectSeq(signals, LAMBDA s : s.take_profit # 0)
       IN  Signal(IF signal_type = "buy" THEN "buy" ELSE "sell",
                  SumField(signals, "confidence") \div n,
                  SumField(signals, "entry_price") \div n,
                  IF stop_losses = << >> THEN 0
                  ELSE SumField(stop_losses, "stop_loss") \div Len(stop_losses),
                  IF take_profits = << >> THEN 0
                  ELSE SumField(take_profits, "take_profit") \div Len(take_profits))

\* StrategyManager._consensus_signal
consensus_signal(signals, min_confidence) ==
  LET buy_signals == OfType(signals, "buy", min_confidence)
      sell_signals == OfType(signals, "sell", min_confidence)
      total_signals == Len(signals)
  IN  IF signals = << >> THEN NoSignal
      ELSE IF 2 * Len(buy_signals) > total_signals THEN average_signals(buy_signals, "buy")
      ELSE IF 2 * Len(sell_signals) > total_signals
        THEN average_signals(sell_signals, "sell")
      ELSE NoSignal

\* A majority among the confident signals only
MajorityOfConfident(signals, min_confidence) ==
  LET buy_signals == OfType(signals, "buy", min_confidence)
      sell_signals == OfType(signals, "sell", min_confidence)
      total_strategies == Len(Confident(signals, min_confidence))
  IN  IF signals = << >> THEN NoSignal
      ELSE IF 2 * Len(buy_signals) > total_strategies
        THEN average_signals(buy_signals, "buy")
      ELSE IF 2 * Len(sell_signals) > total_strategies
        THEN average_signals(sell_signals, "sell")
      ELSE NoSignal

\* StrategyManager._majority_signal
majority_signal(signals, min_confidence) ==
  LET buy_signals == OfType(signals, "buy", min_confidence)
      sell_signals == OfType(signals, "sell", min_confidence)
      total_strategies == Len(signals)
  IN  IF signals = << >> THEN NoSignal
      ELSE IF 2 * Len(buy_signals) > total_strategies
        THEN average_signals(buy_signals, "buy")
      ELSE IF 2 * Len(sell_signals) > total_strategies
        THEN average_signals(sell_signals, "sell")
      ELSE NoSignal

\* _weighted_signal without its test of the difference of the weights
WeightedWithoutMargin(signals, min_confidence) ==
  LET buy_signals == OfType(signals, "buy", min_confidence)
      sell_signals == OfType(signals, "sell", min_confidence)
      buy_weight == SumField(buy_signals, "confidence")
      sell_weight == SumField(sell_signals, "confidence")
  IN  IF signals = << >> THEN NoSignal
      ELSE IF buy_weight > sell_weight THEN average_signals(buy_signals, "buy")
      ELSE average_signals(sell_signals, "sell")

\* StrategyManager._weighted_signal
weighted_signal(signals, min_confidence) ==
  LET buy_signals == OfType(signals, "buy", min_confidence)
      sell_signals == OfType(signals, "sell", min_confidence)
      buy_weight == SumField(buy_signals, "confidence")
      sell_weight == SumField(sell_signals, "confidence")
  IN  IF signals = << >> THEN NoSignal
      ELSE IF Abs(buy_weight - sell_weight) < min_weight_diff THEN NoSignal
      ELSE IF buy_weight > sell_weight THEN average_signals(buy_signals, "buy")
      ELSE average_signals(sell_signals, "sell")

\* max(valid_signals, key=lambda s: s.confidence): the first of the largest
RECURSIVE MaxConfidence(_)
MaxConfidence(signals) ==
  IF Len(signals) = 1 THEN Head(signals)
  ELSE LET best == MaxConfidence(Tail(signals))
       IN  IF Head(signals).confidence >= best.confidence THEN Head(signals) ELSE best

\* StrategyManager._any_signal and StrategyManager._highest_confidence_signal
highest_confidence_signal(signals, min_confidence) ==
  LET valid_signals == Confident(signals, min_confidence)
  IN  IF valid_signals = << >> THEN NoSignal ELSE MaxConfidence(valid_signals)

\* StrategyManager._first_match_signal
first_match_signal(signals, min_confidence) ==
  LET valid_signals == Confident(signals, min_confidence)
  IN  IF valid_signals = << >> THEN NoSignal ELSE Head(valid_signals)

\* StrategyManager.get_combined_signal on the signals the strategies
\* returned, in registration order: the signal returned and the warning logged
get_combined_signal(manager, all_signals, min_confidence) ==
  LET actionable_signals ==
        SelectSeq(all_signals, LAMBDA sig : sig # NoSignal /\ sig.signal_type # "hold")
      method == manager.combination_method
  IN  IF actionable_signals = << >> THEN [signal |-> NoSignal, log |-> ""]
      ELSE IF method = "consensus"
        THEN [signal |-> consensus_signal(actionable_signals, min_confidence), log |-> ""]
      ELSE IF method = "majority"
        THEN [signal |-> majority_signal(actionable_signals, min_confidence), log |-> ""]
      ELSE IF method = "weighted"
        THEN [signal |-> weighted_signal(actionable_signals, min_confidence), log |-> ""]
      ELSE IF method = "any"
        THEN [signal |-> highest_confidence_signal(actionable_signals, min_confidence),
              log |-> ""]
      ELSE IF method = "first_match"
        THEN [signal |-> first_match_signal(actionable_signals, min_confidence), log |-> ""]
      ELSE IF method = "highest_confidence"
        THEN [signal |-> highest_confidence_signal(actionable_signals, min_confidence),
              log |-> ""]
      ELSE [signal |-> NoSignal, log |-> "unknown_method"]

\* a caller constructs the manager with any method name
InitSM ==
  /\ EngineStarted
  /\ dry_run = TRUE
  /\ price = [s \in Symbols |-> 100]
  /\ FeedIdle
  /\ WebSocketIdle
  /\ supervised = FALSE
  /\ strategy_manager \in {NewStrategyManager(m) : m \in MethodNames}
  /\ combined_signal = NoSignal
  /\ sm_log = ""
  /\ returned_signals = << >>
  /\ last_min_confidence = 0
  /\ StrategiesIdle
  /\ RiskIdle

\* The thresholds callers pass: TradingEngine's 0.6 and the Spot profile's 0.7
MinConfidences == {default_min_confidence, 70000}

\* a caller registers one more strategy, at set-up as the engines do; signal
\* is what its analyze returns on the frame the manager is evaluated on
RegisterStrategy(signal) ==
  /\ last_min_confidence = 0
  /\ strategy_manager.strategies < MaxStrategies
  /\ strategy_manager' = [strategy_manager EXCEPT !.strategies = @ + 1]
  /\ returned_signals' = Append(returned_signals, signal)
  /\ UNCHANGED << mse_vars, price, exchange, feed_vars, cfg_vars, risk_vars, ws_vars,
                  combined_signal, sm_log,
                  last_min_confidence, strat_vars, am_vars >>

\* a caller evaluates: every registered strategy returns its signal and
\* get_combined_signal combines them
GetCombinedSignal(threshold) ==
  /\ LET out == get_combined_signal(strategy_manager, returned_signals, threshold)
     IN  /\ combined_signal' = out.signal
         /\ sm_log' = out.log
  /\ last_min_confidence' = threshold
  /\ UNCHANGED << mse_vars, price, exchange, feed_vars, cfg_vars, risk_vars, ws_vars,
                  strategy_manager,
                  returned_signals, strat_vars, am_vars >>

NextSM ==
  \/ \E signal \in StrategySignals : RegisterStrategy(signal)
  \/ \E threshold \in MinConfidences : GetCombinedSignal(threshold)

SpecSM == InitSM /\ [][NextSM]_vars

\* C16: a combination method that is none of the supported ones is rejected
\* when the manager is set up: no manager that has strategies registered
\* carries such a name, and no evaluation finds out that its method is unknown.
C16_UnsupportedMethodRejected ==
  /\ strategy_manager.strategies > 0 =>
       strategy_manager.combination_method \in SupportedMethods
  /\ sm_log # "unknown_method"

\* ============================================================ properties
\* of the tracked positions (SpecCfg)

\* C17: from its opening to its closing a tracked position keeps its side,
\* entry price, quantity, stop-loss and take-profit: in every step, whatever
\* tick, signal, price move or change of the configuration table it is, a
\* symbol tracked before and after has the same record.
C17_TrackedPositionFrozen ==
  [][\A s \in Symbols :
       (s \in DOMAIN open_positions /\ s \in DOMAIN open_positions')
         => open_positions'[s] = open_positions[s]]_vars

C17_Witness ==
  \E s \in DOMAIN open_positions :
    /\ safe_list[s] * QtyScale < open_positions[s].quantity * open_positions[s].entry_price
    /\ last_attempt = [symbol |-> s, result |-> "skipped"]

\* ============================================================ the strategies
\* and the stop-loss calculation on their own (SpecStrat)
\* Prices and indicator values of this part are in hundredths of a USDT.

oversold_threshold == 30
overbought_threshold == 70

\* Closes, moving averages and Bollinger middles of the frames
IndicatorPrices == {9600, 9700, 9800, 9900, 10000, 10100, 10200, 10300, 10400}
\* bb_upper - bb_middle = bb_middle - bb_lower = bb_std standard deviations
BandHalfWidths == {0, 100, 200}
RsiValues == {0, 20, 50, 80, 100}

\* In a window of bb_period = 20 closes no close is further from their mean
\* than 19 / sqrt(20) = 4.2485 sample standard deviations, which is 2.1243
\* half-widths of the band
InsideWindow(current_price, bb_middle, half_width) ==
  Abs(current_price - bb_middle) * 10000 <= 21243 * half_width

Hold(current_price) == Signal("hold", 0, current_price, 0, 0)

\* generate_signal without the cap of its confidence at 1.0
MeanReversionUncapped(current_price, current_rsi, bb_middle, bb_upper, bb_lower) ==
  LET bb_width == bb_upper - bb_lower
      \* price_position * bb_width
      above_lower == current_price - bb_lower
      buy_band_factor == Max(0, PctScale - (above_lower * 10 * PctScale) \div bb_width)
      buy_rsi_factor == PctScale - (current_rsi * PctScale) \div oversold_threshold
      sell_band_factor == ((above_lower * 10 - 9 * bb_width) * PctScale) \div bb_width
      sell_rsi_factor == ((current_rsi - overbought_threshold) * PctScale)
                           \div (100 - overbought_threshold)
      confidence(band_factor, rsi_factor) ==
        PctScale \div 2 + (band_factor * 3) \div 10 + (rsi_factor * 2) \div 10
  IN  IF bb_width = 0 THEN NoSignal
      ELSE IF above_lower * 10 <= bb_width /\ current_rsi < oversold_threshold
        THEN Signal("buy", confidence(buy_band_factor, buy_rsi_factor), current_price,
                    (bb_lower * 99) \div 100, bb_middle)
      ELSE IF above_lower * 10 >= 9 * bb_width /\ current_rsi > overbought_threshold
        THEN Signal("sell", confidence(sell_band_factor, sell_rsi_factor), current_price,
                    (bb_upper * 101) \div 100, bb_middle)
      ELSE Hold(current_price)

\* generate_signal taking a band of zero width for a price on its lower band
MeanReversionZeroWidthIsLower(current_price, current_rsi, bb_middle, bb_upper, bb_lower) ==
  LET bb_width == bb_upper - bb_lower
      \* price_position * bb_width
      above_lower == current_price - bb_lower
      buy_band_factor == Max(0, PctScale - (above_lower * 10 * PctScale) \div bb_width)
      buy_rsi_factor == PctScale - (current_rsi * PctScale) \div oversold_threshold
      sell_band_factor == ((above_lower * 10 - 9 * bb_width) * PctScale) \div bb_width
      sell_rsi_factor == ((current_rsi - overbought_threshold) * PctScale)
                           \div (100 - overbought_threshold)
      confidence(band_factor, rsi_factor) ==
        Min(PctScale \div 2 + (band_factor * 3) \div 10 + (rsi_factor * 2) \div 10, PctScale)
  IN  IF bb_width = 0 /\ current_rsi >= oversold_threshold THEN Hold(current_price)
      ELSE IF bb_width = 0
        THEN Signal("buy", PctScale \div 2, current_price, (bb_lower * 99) \div 100,
                    bb_middle)
      ELSE IF above_lower * 10 <= bb_width /\ current_rsi < oversold_threshold
        THEN Signal("buy", confidence(buy_band_factor, buy_rsi_factor), current_price,
                    (bb_lower * 99) \div 100, bb_middle)
      ELSE IF above_lower * 10 >= 9 * bb_width /\ current_rsi > overbought_threshold
        THEN Signal("sell", confidence(sell_band_factor, sell_rsi_factor), current_price,
                    (bb_upper * 101) \div 100, bb_middle)
      ELSE Hold(current_price)

\* MeanReversionStrategy.generate_signal on the latest indicator values
mean_reversion_signal(current_price, current_rsi, bb_middle, bb_upper, bb_lower) ==
  LET bb_width == bb_upper - bb_lower
      \* price_position * bb_width
      above_lower == current_price - bb_lower
      buy_band_factor == Max(0, PctScale - (above_lower * 10 * PctScale) \div bb_width)
      buy_rsi_factor == PctScale - (current_rsi * PctScale) \div oversold_threshold
      sell_band_factor == ((above_lower * 10 - 9 * bb_width) * PctScale) \div bb_width
      sell_rsi_factor == ((current_rsi - overbought_threshold) * PctScale)
                           \div (100 - overbought_threshold)
      confidence(band_factor, rsi_factor) ==
        Min(PctScale \div 2 + (band_factor * 3) \div 10 + (rsi_factor * 2) \div 10, PctScale)
  IN  IF bb_width = 0 THEN NoSignal
      ELSE IF above_lower * 10 <= bb_width /\ current_rsi < oversold_threshold
        THEN Signal("buy", confidence(buy_band_factor, buy_rsi_factor), current_price,
                    (bb_lower * 99) \div 100, bb_middle)
      ELSE IF above_lower * 10 >= 9 * bb_width /\ current_rsi > overbought_threshold
        THEN Signal("sell", confidence(sell_band_factor, sell_rsi_factor), current_price,
                    (bb_upper * 101) \div 100, bb_middle)
      ELSE Hold(current_price)

\* detect_crossover reading the position of the current averages only
CrossoverWithoutPrev(prev, fast_ma, slow_ma) ==
  [crossover |-> IF fast_ma > slow_ma THEN "bullish"
                 ELSE IF fast_ma < slow_ma THEN "bearish"
                 ELSE "none",
   prev |-> [fast_ma |-> fast_ma, slow_ma |-> slow_ma]]

\* MomentumStrategy.detect_crossover: the crossover and the new prev values
detect_crossover(prev, fast_ma, slow_ma) ==
  [crossover |-> IF prev = NoMA THEN "none"
                 ELSE IF prev.fast_ma <= prev.slow_ma /\ fast_ma > slow_ma THEN "bullish"
                 ELSE IF prev.fast_ma >= prev.slow_ma /\ fast_ma < slow_ma THEN "bearish"
                 ELSE "none",
   prev |-> [fast_ma |-> fast_ma, slow_ma |-> slow_ma]]

\* MomentumStrategy.generate_signal after detect_crossover
momentum_signal(crossover, current_price, current_rsi, fast_ma, slow_ma) ==
  LET ma_factor == Min((Abs(fast_ma - slow_ma) * 100 * PctScale) \div slow_ma,
                       PctScale \div 2)
      buy_rsi_factor == Min(((current_rsi - oversold_threshold) * PctScale) \div 50,
                            PctScale)
      sell_rsi_factor == Min(((overbought_threshold - current_rsi) * PctScale) \div 50,
                             PctScale)
      confidence(rsi_factor) ==
        Min(PctScale \div 2 + (rsi_factor * 3) \div 10 + (ma_factor * 2) \div 10, PctScale)
  IN  IF crossover = "bullish" /\ current_rsi > oversold_threshold
        THEN Signal("buy", confidence(buy_rsi_factor), current_price,
                    (current_price * 98) \div 100, (current_price * 104) \div 100)
      ELSE IF crossover = "bearish" /\ current_rsi < overbought_threshold
        THEN Signal("sell", confidence(sell_rsi_factor), current_price,
                    (current_price * 102) \div 100, (current_price * 96) \div 100)
      ELSE Hold(current_price)

InitStrat ==
  /\ EngineStarted
  /\ dry_run = TRUE
  /\ price = [s \in Symbols |-> 100]
  /\ FeedIdle
  /\ WebSocketIdle
  /\ supervised = FALSE
  /\ ManagerIdle
  /\ RiskIdle

\* MeanReversionStrategy.generate_signal on a frame whose last close,
\* RSI and Bollinger bands are these
MeanReversionGenerates(current_price, current_rsi, bb_middle, half_width) ==
  /\ InsideWindow(current_price, bb_middle, half_width)
  /\ last_signal' =
       [strategy |-> "mean_reversion", bb_width |-> 2 * half_width,
        signal |-> IF current_rsi = NaN THEN NoSignal
                   ELSE mean_reversion_signal(current_price, current_rsi, bb_middle,
                                              bb_middle + half_width,
                                              bb_middle - half_width)]
  /\ UNCHANGED << mse_vars, price, exchange, feed_vars, cfg_vars, risk_vars, ws_vars,
                  strategy_manager, combined_signal, sm_log, returned_signals,
                  last_min_confidence, momentum_prev, last_stop, am_vars >>

\* MomentumStrategy.generate_signal on a frame whose last close, RSI and
\* moving averages are these: with a NaN indicator it returns None before
\* detect_crossover is called
MomentumGenerates(current_price, current_rsi, fast_ma, slow_ma) ==
  /\ LET isna == current_rsi = NaN \/ fast_ma = NaN \/ slow_ma = NaN
         crossed == IF isna THEN [crossover |-> "none", prev |-> momentum_prev]
                    ELSE detect_crossover(momentum_prev, fast_ma, slow_ma)
     IN  /\ momentum_prev' = crossed.prev
         /\ last_signal' =
              [strategy |-> "momentum", bb_width |-> NaN,
               signal |-> IF isna THEN NoSignal
                          ELSE momentum_signal(crossed.crossover, current_price,
                                               current_rsi, fast_ma, slow_ma)]
  /\ UNCHANGED << mse_vars, price, exchange, feed_vars, cfg_vars, risk_vars, ws_vars,
                  strategy_manager, combined_signal, sm_log, returned_signals,
                  last_min_confidence, last_stop, am_vars >>

\* a caller asks for a stop-loss
CalculateDynamicStopLoss(df, current_price, side) ==
  /\ last_stop' = [current_price |-> current_price, side |-> side,
                   stop_loss |-> calculate_dynamic_stop_loss(df, current_price, side)]
  /\ UNCHANGED << mse_vars, price, exchange, feed_vars, cfg_vars, risk_vars, ws_vars,
                  strategy_manager, combined_signal, sm_log, returned_signals,
                  last_min_confidence, momentum_prev, last_signal, am_vars >>

NextStrat ==
  \/ \E c \in IndicatorPrices, r \in RsiValues \cup {NaN}, m \in {10000},
        w \in BandHalfWidths :
       MeanReversionGenerates(c, r, m, w)
  \/ \E c \in {10000}, r \in RsiValues, f \in {9900, 10000, 10100}, s \in {10000} :
       MomentumGenerates(c, r, f, s)
  \/ \E df \in EngineFrames, c \in Prices, side \in {"long", "short"} :
       CalculateDynamicStopLoss(df, c, side)

SpecStrat == InitStrat /\ [][NextStrat]_vars

\* C18: every stop-loss is on the loss side of its entry: below the entry
\* price of a Buy signal and above that of a Sell signal of either strategy,
\* and below (long) or above (short) the current price given to
\* calculate_dynamic_stop_loss, fallbacks included.
C18_StopOnLossSide ==
  /\ last_signal.signal.signal_type = "buy"
       => last_signal.signal.stop_loss < last_signal.signal.entry_price
  /\ last_signal.signal.signal_type = "sell"
       => last_signal.signal.stop_loss > last_signal.signal.entry_price
  /\ last_stop.side = "long" => last_stop.stop_loss < last_stop.current_price
  /\ last_stop.side = "short" => last_stop.stop_loss > last_stop.current_price

\* ============================================================ both engines
\* (SpecEngines)

\* Either engine is started in dry-run mode, and takes the steps of its own
\* specification: TradingEngine is the one without a monitor task
InitEngines == (Init \/ InitTE) /\ dry_run
NextEngines ==
  \/ monitor_pc # "none" /\ Next
  \/ monitor_pc = "none" /\ NextTE
SpecEngines == InitEngines /\ [][NextEngines]_vars

\* C19: with dry_run on neither engine sends an order: no engine step calls
\* place_order, create_market_order, create_stop_loss or the connector's
\* close_position, so no entry was ever executed, the exchange holds nothing
\* and no closing order was placed.
C19_DryRunSendsNoOrder ==
  dry_run =>
    /\ exchange_calls = {}
    /\ close_orders = {}
    /\ entries_total = 0
    /\ \A s \in Symbols : exchange_position[s] = 0

C19_Witness ==
  /\ dry_run
  /\ main_pc = "trading_loop"
  /\ Len(account_manager.closed_trades) >= 1
  /\ DEFAULT_SYMBOL \in DOMAIN account_manager.open_positions

\* ------------------------------------------------------------------ C20
\* The position of symbol was closed by the step: it is gone and one record
\* was appended to the history
PositionClosed(symbol) ==
  /\ symbol \in DOMAIN account_manager.open_positions
  /\ Len(account_manager'.closed_trades) = Len(account_manager.closed_trades) + 1
  /\ account_manager'.closed_trades[Len(account_manager'.closed_trades)].symbol
       = symbol

\* C20: AccountManager.close_position called for a symbol with an open
\* position returns a ClosedTrade whose realized P&L is (exit - entry) * size
\* for a long and (entry - exit) * size for a short, removes the position and
\* appends exactly one record to the history; called for a symbol with no open
\* position it returns None and changes no state.
C20_CloseReturnsClosedTrade ==
  [][\A symbol \in Symbols :
       /\ PositionClosed(symbol) =>
            LET position == account_manager.open_positions[symbol]
                record == account_manager'.closed_trades[
                            Len(account_manager'.closed_trades)]
                call == am_close_position(account_manager, symbol,
                                          record.exit_price, date_today)
            IN  /\ call.ended = "returned"
                /\ record.realized_pnl =
                     IF position.side = "long"
                     THEN ((record.exit_price - position.entry_price)
                             * position.size) \div QtyScale
                     ELSE ((position.entry_price - record.exit_price)
                             * position.size) \div QtyScale
                /\ call.am.closed_trades =
                     Append(account_manager.closed_trades, record)
                /\ symbol \notin DOMAIN call.am.open_positions
       /\ symbol \notin DOMAIN account_manager.open_positions =>
            LET call == am_close_position(account_manager, symbol,
                                          price[symbol], date_today)
            IN  /\ call.ended = "returned_none"
                /\ call.am = account_manager
  ]_vars

\* ============================================================ properties
\* of the combination policies (SpecSM)

\* An evaluation has been made, of the signals in returned_signals
Evaluated == last_min_confidence # 0
\* The input signals of direction t at or above the last threshold
Agreeing(t) == OfType(returned_signals, t, last_min_confidence)
\* x is the arithmetic mean of field over the signals
IsMean(x, signals, field) ==
  /\ signals # << >>
  /\ x * Len(signals) = SumField(signals, field)

\* C21: under the consensus policy, when a direction wins, the returned
\* signal has that direction and its entry price, confidence, stop-loss and
\* take-profit are the arithmetic means of those fields over exactly the input
\* signals of that direction with confidence >= min_confidence; in particular
\* 3 strategies with 2 Buy at or above the threshold and 1 Hold yield a Buy
\* whose entry price is the mean of the two Buy entry prices.
C21_ConsensusAveragesWinners ==
  (Evaluated /\ strategy_manager.combination_method = "consensus") =>
    /\ \A t \in {"buy", "sell"} :
         combined_signal.signal_type = t =>
           /\ IsMean(combined_signal.entry_price, Agreeing(t), "entry_price")
           /\ IsMean(combined_signal.confidence, Agreeing(t), "confidence")
           /\ IsMean(combined_signal.stop_loss, Agreeing(t), "stop_loss")
           /\ IsMean(combined_signal.take_profit, Agreeing(t), "take_profit")
    /\ combined_signal.signal_type \in {"buy", "sell", "none"}
    /\ ( /\ Len(returned_signals) = 3
         /\ Len(Agreeing("buy")) = 2
         /\ \E i \in 1..3 : returned_signals[i].signal_type = "hold" )
       => /\ combined_signal.signal_type = "buy"
          /\ 2 * combined_signal.entry_price
               = Agreeing("buy")[1].entry_price + Agreeing("buy")[2].entry_price

\* Two Buy signals with different entry prices and confidences and one Hold
\* were combined by consensus
C21_Witness ==
  /\ Evaluated
  /\ strategy_manager.combination_method = "consensus"
  /\ Len(returned_signals) = 3
  /\ Len(Agreeing("buy")) = 2
  /\ Agreeing("buy")[1].entry_price # Agreeing("buy")[2].entry_price
  /\ Agreeing("buy")[1].confidence # Agreeing("buy")[2].confidence
  /\ \E i \in 1..3 : returned_signals[i].signal_type = "hold"
  /\ combined_signal.signal_type = "buy"
  /\ combined_signal.entry_price = 1800

\* C22: under the consensus policy a Buy (respectively Sell) is returned only
\* if more than half of the registered strategies returned Buy (respectively
\* Sell) with confidence >= min_confidence in that evaluation.
C22_ConsensusNeedsHalfOfRegistered ==
  (Evaluated /\ strategy_manager.combination_method = "consensus") =>
    \A t \in {"buy", "sell"} :
      combined_signal.signal_type = t =>
        2 * Len(Agreeing(t)) > strategy_manager.strategies

\* The signals without the i-th
Without(signals, i) ==
  SubSeq(signals, 1, i - 1) \o SubSeq(signals, i + 1, Len(signals))

\* C23: sub-threshold signals are excluded from combination: for each policy
\* (consensus, majority, weighted, any, first-match) and every set of input
\* signals, adding a Buy or Sell signal whose confidence is below
\* min_confidence does not change the combined result: the result of an
\* evaluation is the result for the same signals without any one of them that
\* is a Buy or Sell under the threshold.
C23_SubThresholdSignalsExcluded ==
  (/\ Evaluated
   /\ strategy_manager.combination_method
        \in {"consensus", "majority", "weighted", "any", "first_match"}) =>
    \A i \in 1..Len(returned_signals) :
      (/\ returned_signals[i].signal_type \in {"buy", "sell"}
       /\ returned_signals[i].confidence < last_min_confidence)
        => combined_signal =
             get_combined_signal(strategy_manager, Without(returned_signals, i),
                                 last_min_confidence).signal

Weight(t) == SumField(Agreeing(t), "confidence")

\* C25: under the weighted policy a Buy or Sell is returned only when the two
\* directions' sums of above-threshold confidences differ by more than 0.3;
\* when they differ by 0.3 or less, no actionable signal is returned.
C25_WeightedNeedsMargin ==
  (Evaluated /\ strategy_manager.combination_method = "weighted") =>
    /\ combined_signal.signal_type \in {"buy", "sell"}
         => Abs(Weight("buy") - Weight("sell")) > min_weight_diff
    /\ Abs(Weight("buy") - Weight("sell")) <= min_weight_diff
         => combined_signal.signal_type \notin {"buy", "sell"}

\* ============================================================ risk managers
\* src/apps/executor/risk_manager.py on its own, driven by any caller
\* (SpecRisk: ProfessionalRiskManager, SpecPortfolio: PortfolioRiskManager).
\* The manager's current_daily_loss is the variable of that name.

\* Inputs of calculate_safe_size.  Balances, entry prices, distances of the
\* stop from the entry, win rates, reward ratios; every division the sizing
\* performs on them is exact
RiskBalances == {100, 10000}
RiskEntries == {50, 100}
StopDistances == {0, 1, 10}
WinRates == {40000, 52000, 60000}
RewardRatios == {0, 1, 2}
\* The day's P&L a caller reports: none, and losses around 5 % of the balances
DailyPnls == {0, 0 - 5, 0 - 499, 0 - 500, 0 - 501}
\* max_account_risk_per_trade as the engines configure it: the conservative
\* profile's 0.01 and the default 0.02
RiskCaps == {profile_max_risk_per_trade, max_account_risk_per_trade}

\* kelly_pct of calculate_safe_size after the fractional multiplier
FractionalKelly(win_rate, reward_ratio) ==
  (Max(0, win_rate - ((PctScale - win_rate) \div reward_ratio)) * kelly_fraction)
    \div PctScale

\* ProfessionalRiskManager.calculate_safe_size as the manager's method: the
\* size for its configuration and its current_daily_loss
safe_size(balance, entry_price, stop_loss_price, win_rate, reward_ratio) ==
  calculate_safe_size(current_daily_loss, risk_cfg.max_account_risk_per_trade, balance,
                      entry_price, stop_loss_price, win_rate, reward_ratio)

\* a caller constructs the manager with its configuration
InitRisk ==
  /\ EngineStarted
  /\ dry_run = TRUE
  /\ price = [s \in Symbols |-> 100]
  /\ FeedIdle
  /\ WebSocketIdle
  /\ supervised = FALSE
  /\ ManagerIdle
  /\ risk_cfg \in {[NewRiskConfig EXCEPT !.max_account_risk_per_trade = cap,
                                         !.max_correlated_positions = n] :
                     cap \in RiskCaps, n \in {1, max_correlated_positions}}
  /\ last_size = NoSize
  /\ active_positions = NoPositions
  /\ last_check = NoCheck

\* a caller calls update_daily_pnl
UpdateDailyPnl(pnl) ==
  /\ current_daily_loss' = pnl
  /\ last_size' = NoSize
  /\ UNCHANGED << running, dry_run, open_positions, latest_candles, connector_closed,
                  zmq_socket_closed, zmq_context_termed, main_pc, monitor_pc,
                  entries_total, exchange_position, realized_today, last_attempt,
                  failed_close, heartbeat_warnings, close_orders, exchange_calls,
                  stopped_by, order_pipeline, price, exchange, feed_vars, cfg_vars, ws_vars,
                  risk_cfg, active_positions, last_check, sm_vars, am_vars >>

\* a caller calls calculate_safe_size
CalculateSafeSize(balance, entry_price, stop_loss_price, win_rate, reward_ratio) ==
  /\ last_size' =
       [daily_loss |-> current_daily_loss, balance |-> balance,
        entry_price |-> entry_price, stop_loss_price |-> stop_loss_price,
        win_rate |-> win_rate, reward_ratio |-> reward_ratio,
        size |-> safe_size(balance, entry_price, stop_loss_price, win_rate, reward_ratio)]
  /\ UNCHANGED << mse_vars, price, exchange, feed_vars, cfg_vars, ws_vars, risk_cfg,
                  active_positions, last_check, sm_vars, am_vars >>

NextRisk ==
  \/ \E pnl \in DailyPnls : UpdateDailyPnl(pnl)
  \/ \E balance \in RiskBalances, entry_price \in RiskEntries, d \in StopDistances,
        side \in {1, 0 - 1}, win_rate \in WinRates, reward_ratio \in RewardRatios :
       CalculateSafeSize(balance, entry_price, entry_price - side * d, win_rate,
                         reward_ratio)

SpecRisk == InitRisk /\ [][NextRisk]_vars

\* A calculate_safe_size call has been made
Sized == last_size.size >= 0
\* The money lost if the stop of the last sized position is hit, and the
\* balance's share the configuration allows, both times QtyScale * PctScale
MoneyAtRisk ==
  last_size.size * Abs(last_size.entry_price - last_size.stop_loss_price) * PctScale
AllowedRisk == last_size.balance * risk_cfg.max_account_risk_per_trade * QtyScale

\* C26: calculate_safe_size returns 0 whenever the current daily P&L is
\* <= -balance * max_daily_drawdown, regardless of entry price, stop price,
\* win_rate and reward_ratio (including reward_ratio = 0 and entry = stop);
\* e.g. balance 10000, max_daily_drawdown 0.05 and daily loss -501 give 0.
C26_CircuitBreakerReturnsZero ==
  (/\ Sized
   /\ last_size.daily_loss * PctScale <= 0 - last_size.balance * max_daily_drawdown)
    => last_size.size = 0

\* With a daily loss of 501 on a balance of 10000 a call that would otherwise
\* be sized returned 0
C26_Witness ==
  /\ last_size.daily_loss = 0 - 501
  /\ last_size.balance = 10000
  /\ last_size.reward_ratio = 2
  /\ last_size.win_rate = 60000
  /\ last_size.entry_price = 100
  /\ last_size.stop_loss_price = 99
  /\ last_size.size = 0

\* C27: for all inputs for which calculate_safe_size returns a positive size,
\* the money at risk size * |entry - stop| is at most
\* balance * max_account_risk_per_trade, and equals it when the fractional
\* Kelly value exceeds the cap (raw fraction 0.20 with cap 0.02 risks exactly
\* 2 % of balance).
C27_RiskCapped ==
  (Sized /\ last_size.size > 0) =>
    /\ MoneyAtRisk <= AllowedRisk
    /\ FractionalKelly(last_size.win_rate, last_size.reward_ratio)
         > risk_cfg.max_account_risk_per_trade
         => MoneyAtRisk = AllowedRisk

\* Win rate 0.6 at reward ratio 1 (raw Kelly 0.20, fractional 0.05) under the
\* cap 0.02 on a balance of 10000: 200 USDT are at risk
C27_Witness ==
  /\ risk_cfg.max_account_risk_per_trade = 2000
  /\ last_size.win_rate = 60000
  /\ last_size.reward_ratio = 1
  /\ last_size.balance = 10000
  /\ last_size.size > 0
  /\ last_size.size * Abs(last_size.entry_price - last_size.stop_loss_price)
       = 200 * QtyScale

\* C28: calculate_safe_size never returns a positive size whose notional
\* size * entry_price is below min_notional_usdt: for all inputs the result is
\* either 0 or has notional at least the minimum.
C28_NotionalAtLeastMinimum ==
  Sized =>
    \/ last_size.size = 0
    \/ last_size.size * last_size.entry_price >= min_notional_usdt * QtyScale

\* Balance 100 at the cap 0.01 risks 1 USDT; with the stop 10 away from an
\* entry at 50 that is 0.1 units, a notional of 5 USDT: the call returned 0
C28_Witness ==
  /\ risk_cfg.max_account_risk_per_trade = 1000
  /\ last_size.daily_loss = 0
  /\ last_size.balance = 100
  /\ last_size.entry_price = 50
  /\ last_size.stop_loss_price = 40
  /\ last_size.win_rate = 60000
  /\ last_size.reward_ratio = 1
  /\ last_size.size = 0

\* ------------------------------------------------- PortfolioRiskManager
\* The symbols of the default correlation matrix
PortfolioSymbols == {"BTC/USDT", "ETH/USDT", "SOL/USDT"}
\* PortfolioRiskConfig.__post_init__: the default correlation_matrix
correlation_matrix ==
  [s \in PortfolioSymbols |->
     IF s = "BTC/USDT" THEN {"ETH/USDT"}
     ELSE IF s = "ETH/USDT" THEN {"BTC/USDT"}
     ELSE {}]
\* Notionals in USDT a caller registers or proposes, and account balances
NotionalsUsd == {100, 200, 900}
PortfolioBalances == {10000, 20000}

\* can_open_position with the exposure check only
ExposureCheckOnly(positions, cfg, symbol, position_size_usd, account_balance) ==
  LET current_exposure == SumOver(positions, DOMAIN positions)
      new_exposure == current_exposure + position_size_usd
  IN  ~(new_exposure * PctScale > account_balance * max_total_exposure)

\* can_open_position with the correlation check only
CorrelationCheckOnly(positions, cfg, symbol, position_size_usd, account_balance) ==
  LET correlated_symbols == correlation_matrix[symbol]
      correlated_open == Cardinality({s \in correlated_symbols : s \in DOMAIN positions})
  IN  ~(correlated_open >= cfg.max_correlated_positions)

\* PortfolioRiskManager.can_open_position: approved or not
can_open_position(positions, cfg, symbol, position_size_usd, account_balance) ==
  LET current_exposure == SumOver(positions, DOMAIN positions)
      new_exposure == current_exposure + position_size_usd
      correlated_symbols == correlation_matrix[symbol]
      correlated_open == Cardinality({s \in correlated_symbols : s \in DOMAIN positions})
  IN  IF new_exposure * PctScale > account_balance * max_total_exposure THEN FALSE
      ELSE IF correlated_open >= cfg.max_correlated_positions THEN FALSE
      ELSE TRUE

\* a caller calls register_position after an order
RegisterPosition(symbol, size_usd) ==
  /\ active_positions' = DictSet(active_positions, symbol, size_usd)
  /\ last_check' = NoCheck
  /\ UNCHANGED << mse_vars, price, exchange, feed_vars, cfg_vars, ws_vars, risk_cfg, last_size,
                  sm_vars, am_vars >>

\* a caller calls PortfolioRiskManager.close_position after a close
PortfolioClosePosition(symbol) ==
  /\ active_positions' = IF symbol \in DOMAIN active_positions
                         THEN DictDel(active_positions, {symbol})
                         ELSE active_positions
  /\ last_check' = NoCheck
  /\ UNCHANGED << mse_vars, price, exchange, feed_vars, cfg_vars, ws_vars, risk_cfg, last_size,
                  sm_vars, am_vars >>

\* a caller calls can_open_position
CanOpenPosition(symbol, position_size_usd, account_balance) ==
  /\ last_check' =
       [symbol |-> symbol, position_size_usd |-> position_size_usd,
        account_balance |-> account_balance,
        approved |-> IF can_open_position(active_positions, risk_cfg, symbol,
                                          position_size_usd, account_balance)
                     THEN "yes" ELSE "no"]
  /\ UNCHANGED << mse_vars, price, exchange, feed_vars, cfg_vars, ws_vars, risk_cfg, last_size,
                  active_positions, sm_vars, am_vars >>

NextPortfolio ==
  \/ \E s \in PortfolioSymbols, size_usd \in NotionalsUsd : RegisterPosition(s, size_usd)
  \/ \E s \in PortfolioSymbols : PortfolioClosePosition(s)
  \/ \E s \in PortfolioSymbols, size_usd \in NotionalsUsd, b \in PortfolioBalances :
       CanOpenPosition(s, size_usd, b)

SpecPortfolio == InitRisk /\ [][NextPortfolio]_vars

\* The sum of the tracked notionals
TrackedExposure == SumOver(active_positions, DOMAIN active_positions)
\* The tracked positions in symbols correlated with the candidate
CorrelatedTracked(symbol) == correlation_matrix[symbol] \cap DOMAIN active_positions

\* C29: PortfolioRiskManager.can_open_position rejects exactly when tracked
\* total exposure + proposed notional > balance * max_total_exposure, or when
\* the number of tracked positions in symbols correlated with the candidate
\* is >= max_correlated_positions, and approves otherwise; e.g. limit 0.10,
\* balance 10000, tracked 900 and proposed 200 is rejected.
C29_PortfolioRejectsExactly ==
  last_check # NoCheck =>
    /\ last_check.approved \in {"yes", "no"}
    /\ last_check.approved = "no" <=>
         \/ (TrackedExposure + last_check.position_size_usd) * PctScale
              > last_check.account_balance * max_total_exposure
         \/ Cardinality(CorrelatedTracked(last_check.symbol))
              >= risk_cfg.max_correlated_positions
    /\ ( /\ TrackedExposure = 900
         /\ last_check.position_size_usd = 200
         /\ last_check.account_balance = 10000 ) => last_check.approved = "no"

\* One position of notional 900 is tracked and 200 more were proposed for an
\* uncorrelated symbol on a balance of 10000: rejected
C29_Witness ==
  /\ active_positions = [s \in {"BTC/USDT"} |-> 900]
  /\ last_check.symbol = "SOL/USDT"
  /\ last_check.position_size_usd = 200
  /\ last_check.account_balance = 10000
  /\ last_check.approved = "no"

\* ============================================================ a manager
\* with the strategies the engines register (SpecSignals): MomentumStrategy
\* first, MeanReversionStrategy second

\* BaseStrategy.analyze: the strategy's evaluation of a frame.  It fails
\* closed, returning None, when the frame has fewer candles than the strategy
\* requires, and otherwise returns the signal generate_signal builds.
analyze(enough_candles, generated) ==
  IF enough_candles THEN generated ELSE NoSignal

\* Moving averages of the frames: the fast one under or over the slow one
FastMAs == {9900, 10100}
SlowMA == 10000

\* the engine is constructed: its manager has the two strategies
InitSignals ==
  /\ EngineStarted
  /\ dry_run = TRUE
  /\ price = [s \in Symbols |-> 100]
  /\ FeedIdle
  /\ WebSocketIdle
  /\ supervised = FALSE
  /\ strategy_manager \in {[NewStrategyManager(m) EXCEPT !.strategies = 2] :
                             m \in MethodNames}
  /\ combined_signal = NoSignal
  /\ sm_log = ""
  /\ returned_signals = << >>
  /\ last_min_confidence = 0
  /\ StrategiesIdle
  /\ RiskIdle

\* get_combined_signal on a frame: get_all_signals has each strategy analyze
\* the frame, in registration order, and the manager combines the results
EvaluateFrame(enough_candles, current_price, current_rsi, fast_ma, half_width, threshold) ==
  /\ InsideWindow(current_price, SlowMA, half_width)
  /\ LET crossed == IF enough_candles
                    THEN detect_crossover(momentum_prev, fast_ma, SlowMA)
                    ELSE [crossover |-> "none", prev |-> momentum_prev]
         momentum == analyze(enough_candles,
                             momentum_signal(crossed.crossover, current_price,
                                             current_rsi, fast_ma, SlowMA))
         mean_reversion == analyze(enough_candles,
                                   mean_reversion_signal(current_price, current_rsi,
                                                         SlowMA, SlowMA + half_width,
                                                         SlowMA - half_width))
         all_signals == << momentum, mean_reversion >>
         out == get_combined_signal(strategy_manager, all_signals, threshold)
     IN  /\ momentum_prev' = crossed.prev
         /\ returned_signals' = all_signals
         /\ last_signal' = [strategy |-> "mean_reversion", signal |-> mean_reversion,
                            bb_width |-> 2 * half_width]
         /\ combined_signal' = out.signal
         /\ sm_log' = out.log
  /\ last_min_confidence' = threshold
  /\ UNCHANGED << mse_vars, price, exchange, feed_vars, cfg_vars, risk_vars, ws_vars,
                  strategy_manager, last_stop, am_vars >>

NextSignals ==
  \E enough_candles \in BOOLEAN, c \in IndicatorPrices, r \in RsiValues, f \in FastMAs,
     w \in BandHalfWidths, threshold \in MinConfidences :
    EvaluateFrame(enough_candles, c, r, f, w, threshold)

SpecSignals == InitSignals /\ [][NextSignals]_vars

\* C30: every Signal produced by MomentumStrategy, by MeanReversionStrategy
\* or by a StrategyManager combination has confidence in [0, 1], for all
\* indicator values, including a price that lies outside the Bollinger band.
C30_ConfidenceInUnitInterval ==
  /\ \A i \in 1..Len(returned_signals) :
       returned_signals[i].confidence \in 0..PctScale
  /\ last_signal.signal.confidence \in 0..PctScale
  /\ combined_signal.confidence \in 0..PctScale

\* The close is under the lower band (the Buy's stop, 1 % under the band, is
\* still above its entry): mean reversion's confidence is at the cap, momentum
\* holds, and the manager returned a Buy
C30_Witness ==
  /\ Len(returned_signals) = 2
  /\ returned_signals[1].signal_type = "hold"
  /\ returned_signals[2].signal_type = "buy"
  /\ returned_signals[2].entry_price < returned_signals[2].stop_loss
  /\ returned_signals[2].confidence = PctScale
  /\ combined_signal.signal_type = "buy"

\* ============================================================ MomentumStrategy
\* evaluated frame after frame (SpecMomentum)

\* Slow moving averages of the frames; the fast one is under, on or over them,
\* or NaN as the RSI is on a flat window
SlowMAs == {10000, 10050}
MomentumFastMAs == {9900, 10000, 10100, NaN}
MomentumRsiValues == RsiValues \cup {NaN}

NextMomentum ==
  \E c \in IndicatorPrices, r \in MomentumRsiValues, f \in MomentumFastMAs,
     s \in SlowMAs :
    MomentumGenerates(c, r, f, s)

SpecMomentum == InitStrat /\ [][NextMomentum]_vars

\* the signal type the evaluation of this step emits
Emits(t) == last_signal'.strategy = "momentum" /\ last_signal'.signal.signal_type = t

\* C31: MomentumStrategy emits Buy only on an evaluation where the fast MA
\* recorded before it was <= its slow MA and the current fast MA is > the
\* current slow MA, and Sell only on the reverse; so the first evaluation
\* after construction emits neither, and no evaluation emits Buy right after
\* a Buy or Sell right after a Sell.
C31_SignalOnlyOnCrossover ==
  [][/\ Emits("buy") =>
          /\ momentum_prev # NoMA
          /\ momentum_prev.fast_ma <= momentum_prev.slow_ma
          /\ momentum_prev'.fast_ma > momentum_prev'.slow_ma
     /\ Emits("sell") =>
          /\ momentum_prev # NoMA
          /\ momentum_prev.fast_ma >= momentum_prev.slow_ma
          /\ momentum_prev'.fast_ma < momentum_prev'.slow_ma
     /\ last_signal.strategy = "none" => ~Emits("buy") /\ ~Emits("sell")
     /\ last_signal.signal.signal_type = "buy" => ~Emits("buy")
     /\ last_signal.signal.signal_type = "sell" => ~Emits("sell")]_vars

\* A Buy was emitted: the fast MA this evaluation recorded is over its slow
\* MA, and the one recorded before it was not
C31_Witness ==
  /\ last_signal.strategy = "momentum"
  /\ last_signal.signal.signal_type = "buy"
  /\ momentum_prev.fast_ma = 10100
  /\ momentum_prev.slow_ma = 10050

\* ------------------------------------------------------------------
\* C32: MeanReversionStrategy.generate_signal, given equal upper and lower
\* Bollinger bands, yields no Buy and no Sell signal and raises no error: the
\* evaluation returns, and what it returns is None.
C32_ZeroWidthBandsGiveNoSignal ==
  [][(\E c \in IndicatorPrices, r \in RsiValues \cup {NaN} :
        MeanReversionGenerates(c, r, 10000, 0))
       => last_signal'.signal = NoSignal]_vars

\* An evaluation of a flat window, its bands both on its closes, has returned
\* None
C32_Witness ==
  /\ last_signal.strategy = "mean_reversion"
  /\ last_signal.bb_width = 0
  /\ last_signal.signal = NoSignal

\* ------------------------------------------------------------------
\* C33: in TradingEngine every entry order the exchange executed has a
\* tracked position in AccountManager (open, or closed since), also when the
\* stop-loss order that follows the market order fails; so the next
\* iteration finds the position and opens no second one for the symbol.
C33_ExecutedEntryIsTracked ==
  entries_total <= TradesTracked(account_manager)

\* ============================================================ BinanceWebSocket
\* src/core/binance_websocket.py (SpecWS): the task that runs _connect, the
\* server, and a task that calls close().  ws_pc is "idle" before a
\* connect_*_stream call, "connecting" inside websockets.connect,
\* "receiving" at the async for of _receive_messages, "delay" in the sleep
\* of _handle_reconnect and "done" once _connect has returned.

max_reconnect_attempts == 10

\* what after_close records once close() has returned
Since(event) == IF close_pc = "done" THEN after_close \cup {event} ELSE after_close

\* _connect from its while test on: the next attempt starts, or the loop is
\* left and on_close is awaited when the attempts are used up
LoopTest(count) ==
  /\ ws_pc' = IF is_running /\ count < max_reconnect_attempts THEN "connecting"
              ELSE "done"
  /\ on_close_calls' = IF ~(is_running /\ count < max_reconnect_attempts)
                          /\ count >= max_reconnect_attempts
                       THEN on_close_calls + 1
                       ELSE on_close_calls
  /\ after_close' = IF is_running /\ count < max_reconnect_attempts
                    THEN Since("attempt")
                    ELSE after_close

\* _handle_reconnect, then the while test: a stopped client goes on to the
\* test at once, a running one counts the failure and sleeps
HandleReconnect ==
  IF ~is_running
  THEN LoopTest(ws_reconnect_count) /\ UNCHANGED ws_reconnect_count
  ELSE /\ ws_reconnect_count' = ws_reconnect_count + 1
       /\ ws_pc' = "delay"
       /\ UNCHANGED << on_close_calls, after_close >>

\* connect_single_stream / connect_combined_streams: _connect starts
Connect ==
  /\ ws_pc = "idle"
  /\ is_running' = TRUE
  /\ ws_pc' = "connecting"
  /\ UNCHANGED << mse_vars, price, exchange, feed_vars, cfg_vars, risk_vars, sm_vars,
                  am_vars, websocket, ws_reconnect_count, on_close_calls, close_pc,
                  delivered, after_close, failed_attempts, connected_ever >>

\* _connect without `self.reconnect_count = 0` on a connection
ConnectSucceedsKeepingCount ==
  /\ ws_pc = "connecting"
  /\ websocket' = "open"
  /\ ws_pc' = "receiving"
  /\ failed_attempts' = 0
  /\ connected_ever' = TRUE
  /\ UNCHANGED << mse_vars, price, exchange, feed_vars, cfg_vars, risk_vars, sm_vars,
                  am_vars, is_running, ws_reconnect_count, on_close_calls, close_pc,
                  delivered, after_close >>

\* websockets.connect returns a connection
ConnectSucceeds ==
  /\ ws_pc = "connecting"
  /\ websocket' = "open"
  /\ ws_reconnect_count' = 0
  /\ ws_pc' = "receiving"
  /\ failed_attempts' = 0
  /\ connected_ever' = TRUE
  /\ UNCHANGED << mse_vars, price, exchange, feed_vars, cfg_vars, risk_vars, sm_vars,
                  am_vars, is_running, on_close_calls, close_pc, delivered,
                  after_close >>

\* websockets.connect raises: on_error, then _handle_reconnect
ConnectFails ==
  /\ ws_pc = "connecting"
  /\ failed_attempts' = failed_attempts + 1
  /\ HandleReconnect
  /\ UNCHANGED << mse_vars, price, exchange, feed_vars, cfg_vars, risk_vars, sm_vars,
                  am_vars, is_running, websocket, close_pc, delivered,
                  connected_ever >>

\* _receive_messages gets a message and awaits on_message with it
ReceiveMessage ==
  /\ ws_pc = "receiving"
  /\ websocket = "open"
  /\ delivered < MaxMessages
  /\ delivered' = delivered + 1
  /\ after_close' = Since("message")
  /\ UNCHANGED << mse_vars, price, exchange, feed_vars, cfg_vars, risk_vars, sm_vars,
                  am_vars, ws_pc, is_running, websocket, ws_reconnect_count,
                  on_close_calls, close_pc, failed_attempts, connected_ever >>

\* the connection breaks: the async for raises ConnectionClosed, which
\* _connect catches
ConnectionDrops ==
  /\ ws_pc = "receiving"
  /\ websocket = "open"
  /\ websocket' = "closed"
  /\ HandleReconnect
  /\ UNCHANGED << mse_vars, price, exchange, feed_vars, cfg_vars, risk_vars, sm_vars,
                  am_vars, is_running, close_pc, delivered, failed_attempts,
                  connected_ever >>

\* the connection ends with a normal closure, the server's or the one
\* close() has completed: the async for ends and _receive_messages returns
ReceiveEnds(server_closed) ==
  /\ ws_pc = "receiving"
  /\ websocket = IF server_closed THEN "open" ELSE "closed"
  /\ websocket' = "closed"
  /\ LoopTest(ws_reconnect_count)
  /\ UNCHANGED << mse_vars, price, exchange, feed_vars, cfg_vars, risk_vars, sm_vars,
                  am_vars, is_running, ws_reconnect_count, close_pc, delivered,
                  failed_attempts, connected_ever >>

\* the sleep of _handle_reconnect is over
DelayEnds ==
  /\ ws_pc = "delay"
  /\ LoopTest(ws_reconnect_count)
  /\ UNCHANGED << mse_vars, price, exchange, feed_vars, cfg_vars, risk_vars, sm_vars,
                  am_vars, is_running, websocket, ws_reconnect_count, close_pc,
                  delivered, failed_attempts, connected_ever >>

\* close() up to its await: with no connection, or one already closed, it
\* has nothing to wait for and returns
CloseCalled ==
  /\ ws_pc # "idle"
  /\ close_pc = "none"
  /\ is_running' = FALSE
  /\ close_pc' = IF websocket = "open" THEN "closing" ELSE "done"
  /\ UNCHANGED << mse_vars, price, exchange, feed_vars, cfg_vars, risk_vars, sm_vars,
                  am_vars, ws_pc, websocket, ws_reconnect_count, on_close_calls,
                  delivered, after_close, failed_attempts, connected_ever >>

\* websocket.close() returns: the connection close() found is closed
CloseReturns ==
  /\ close_pc = "closing"
  /\ close_pc' = "done"
  /\ websocket' = IF ws_pc = "receiving" THEN "closed" ELSE websocket
  /\ UNCHANGED << mse_vars, price, exchange, feed_vars, cfg_vars, risk_vars, sm_vars,
                  am_vars, ws_pc, is_running, ws_reconnect_count, on_close_calls,
                  delivered, after_close, failed_attempts, connected_ever >>

ClientSteps ==
  \/ Connect
  \/ ConnectSucceeds
  \/ ConnectFails
  \/ ReceiveEnds(FALSE)
  \/ DelayEnds

NextWS ==
  \/ ClientSteps
  \/ ReceiveMessage
  \/ ConnectionDrops
  \/ ReceiveEnds(TRUE)
  \/ CloseCalled
  \/ CloseReturns

\* A connection attempt ends (websockets.connect has an open timeout), a
\* sleep ends, and a task that is ready runs.
SpecWS == InitStrat /\ [][NextWS]_vars /\ WF_vars(ClientSteps)

\* C34: after close() has completed the client starts no connection attempt
\* and gives no message to on_message, wherever in its connect / receive /
\* reconnect cycle it was when close() was called.
C34_NothingAfterClose == after_close = {}

\* C35: if every connection attempt fails the client terminates after
\* exactly max_reconnect_attempts = 10 failed attempts in a row and then
\* awaits on_close exactly once; reconnect_count is back at 0 after every
\* successful connection, so it counts only the failures since the last one
\* (the failed attempts and, before them, the connection that broke).
C35_TenConsecutiveFailuresEnd ==
  /\ [](/\ on_close_calls <= 1
        /\ on_close_calls = 1 =>
             /\ ws_pc = "done"
             /\ ws_reconnect_count = max_reconnect_attempts
        /\ failed_attempts <= max_reconnect_attempts
        /\ ws_pc = "done" /\ ~connected_ever /\ close_pc = "none" =>
             /\ failed_attempts = max_reconnect_attempts
             /\ on_close_calls = 1
        /\ ws_pc = "receiving" => ws_reconnect_count = 0 /\ failed_attempts = 0
        /\ ws_reconnect_count <= failed_attempts + 1
        /\ ~connected_ever => ws_reconnect_count <= failed_attempts)
  /\ <>(ws_pc = "done" \/ connected_ever)

\* Ten attempts failed, none ever succeeded, _connect has returned and
\* on_close was awaited once; close() was never called
C35_Witness ==
  /\ ws_pc = "done"
  /\ ~connected_ever
  /\ close_pc = "none"
  /\ failed_attempts = max_reconnect_attempts
  /\ on_close_calls = 1

\* ------------------------------------------------------------------
\* C36: open_position for a symbol that has an open position closes the old
\* position at the new entry price and then opens the new one: afterwards
\* the symbol has exactly one open position, with the new side, entry price
\* and size, and the history holds one more closed trade.
C36_ReopenReplacesPosition ==
  [][\A s \in Symbols, side \in AccountSides, p \in Prices, size \in AccountSizes :
       (s \in DOMAIN account_manager.open_positions /\ AccountOpen(s, side, p, size))
         => /\ Len(account_manager'.closed_trades)
                 = Len(account_manager.closed_trades) + 1
            /\ account_manager'.closed_trades[Len(account_manager'.closed_trades)].exit_price
                 = p
            /\ s \in DOMAIN account_manager'.open_positions
            /\ account_manager'.open_positions[s].side = side
            /\ account_manager'.open_positions[s].entry_price = p
            /\ account_manager'.open_positions[s].size = size]_vars

\* ============================================================ the exposure map
\* of a PortfolioRiskManager whose caller registers what was approved
\* (SpecExposure).  The account balance stays what it was at the start.

\* register_position for the proposal can_open_position has just approved
RegisterApproved ==
  /\ last_check.approved = "yes"
  /\ RegisterPosition(last_check.symbol, last_check.position_size_usd)

\* close_position of a registered symbol; the approval of a proposal made
\* before it stands
ClosePositionBetween(symbol) ==
  /\ symbol \in DOMAIN active_positions
  /\ active_positions' = DictDel(active_positions, {symbol})
  /\ UNCHANGED << mse_vars, price, exchange, feed_vars, cfg_vars, ws_vars, risk_cfg,
                  last_size, last_check, sm_vars, am_vars >>

NextExposure ==
  \/ \E s \in PortfolioSymbols, size_usd \in NotionalsUsd :
       CanOpenPosition(s, size_usd, account_manager.current_balance)
  \/ RegisterApproved
  \/ \E s \in PortfolioSymbols : ClosePositionBetween(s)

SpecExposure == InitRisk /\ [][NextExposure]_vars

\* C37: with a constant balance, when register_position is called only for
\* the proposal can_open_position has just approved, with close_position
\* calls in between, the total of active_positions never exceeds
\* balance * max_total_exposure; and can_open_position never changes
\* active_positions.
C37_RegisteredExposureBounded ==
  /\ [](TrackedExposure * PctScale
          <= account_manager.current_balance * max_total_exposure)
  /\ [][(\E s \in PortfolioSymbols, size_usd \in NotionalsUsd, b \in PortfolioBalances :
           CanOpenPosition(s, size_usd, b))
          => active_positions' = active_positions]_vars

\* The registered total is at the limit, two positions of 900 and 100 on a
\* balance of 10000, and a further proposal has been rejected
C37_Witness ==
  /\ Cardinality(DOMAIN active_positions) = 2
  /\ TrackedExposure * PctScale = account_manager.current_balance * max_total_exposure
  /\ last_check.approved = "no"
  /\ last_check.symbol \notin DOMAIN active_positions

\* ------------------------------------------------------------------
\* the realized P&L of the closed trades
ClosedPnl == [i \in 1..Len(account_manager.closed_trades) |->
                account_manager.closed_trades[i].realized_pnl]

NextLedger ==
  \/ \E s \in Symbols, side \in AccountSides, p \in Prices, size \in AccountSizes :
       AccountOpen(s, side, p, size)
  \/ \E s \in Symbols, p \in Prices : AccountClose(s, p)

\* an AccountManager whose client opens and closes positions, all on one day
SpecLedger == InitAM /\ [][NextLedger]_vars

\* C38: after any sequence of open_position and close_position calls,
\* total_trades = winning_trades + losing_trades = the number of ClosedTrade
\* records, a trade of realized P&L exactly 0 counts as a loss, and
\* current_balance = initial_balance + the realized P&L of all closed trades.
C38_MetricsMatchHistory ==
  LET trades == DOMAIN ClosedPnl
  IN  /\ account_manager.total_trades = Cardinality(trades)
      /\ account_manager.winning_trades + account_manager.losing_trades
           = Cardinality(trades)
      /\ account_manager.winning_trades = Cardinality({i \in trades : ClosedPnl[i] > 0})
      /\ account_manager.losing_trades = Cardinality({i \in trades : ClosedPnl[i] <= 0})
      /\ account_manager.current_balance
           = account_manager.initial_balance + SumOver(ClosedPnl, trades)

\* Two trades are closed, one at its entry price (P&L 0, the one loss) and
\* one with a profit (the one win), and the balance is up by that profit
C38_Witness ==
  /\ Len(account_manager.closed_trades) = 2
  /\ \E i \in DOMAIN ClosedPnl : ClosedPnl[i] = 0
  /\ \E i \in DOMAIN ClosedPnl : ClosedPnl[i] > 0
  /\ account_manager.losing_trades = 1
  /\ account_manager.winning_trades = 1
  /\ account_manager.current_balance > account_manager.initial_balance

\* ------------------------------------------------------------------
\* C39: for every combination policy and all input signals, StrategyManager
\* never calls _average_signals with an empty list: get_combined_signal
\* never raises 'Cannot average empty signal list'.
C39_AverageNeverEmpty == combined_signal # AverageRaised

\* The weighted policy was evaluated on signals none of which is a Buy at or
\* over the threshold: the Sell weight won in the else branch and the Sells
\* were averaged
C39_Witness ==
  /\ Evaluated
  /\ strategy_manager.combination_method = "weighted"
  /\ OfType(returned_signals, "buy", last_min_confidence) = << >>
  /\ \E i \in 1..Len(returned_signals) :
       /\ returned_signals[i].signal_type = "buy"
       /\ returned_signals[i].confidence < last_min_confidence
  /\ combined_signal.signal_type = "sell"

====
